---- MODULE Spec2Model ----
(***************************************************************************)
(* A model of the three executable units of the tech-lessons site:         *)
(*   - src/utils/analytics.ts       fetchTopEssays                         *)
(*   - src/plugins/remark-highlight remarkHighlight                        *)
(*   - src/components/Counter.tsx   Counter                                *)
(*                                                                         *)
(* Representation of JavaScript values                                     *)
(*   - Undefined stands for undefined, a value no string is equal to;      *)
(*   - a string the code never looks into (an identifier, a file name, a   *)
(*     title) is a TLA+ string; "" is the empty string;                    *)
(*   - a string the code reads character by character (a JSON text, a      *)
(*     metric value) is the sequence of its UTF-16 code units;             *)
(*   - a page path is a sequence of segments, each either "/" or a         *)
(*     non-empty run of characters without "/", so '/en/blog/a/' is        *)
(*     <<"/", "en", "/", "blog", "/", "a", "/">>; the empty path is <<>>.  *)
(*   - a number is a double: an integer that parseInt gives is written     *)
(*     with its sign and the decimal digits of its absolute value, a       *)
(*     number of a JSON text with its sign, an odd significand and a       *)
(*     power of 2; the count of Counter is an integer of TLA+.             *)
(***************************************************************************)
EXTENDS Integers, Sequences, FiniteSets, TLC

VARIABLES
    env,             \* import.meta.env and process.env, as seen at module load
    propertyId,      \* analytics.ts:6
    credentialsJson, \* analytics.ts:7
    googleAppCreds,  \* analytics.ts:8
    pc,              \* per invocation of fetchTopEssays: where it is suspended
    trace,           \* per invocation: the steps it has performed, in order
    clientOptions,   \* per invocation: the options the client was built with
    response,        \* per invocation: the resolved report response
    result,          \* per invocation: the value its promise resolved to
    calls,           \* number of invocations started so far
    mockTopPages,    \* the contents of the module's MOCK_TOP_PAGES array
    history,         \* the calls and the returns of all invocations, in order
    world,           \* the answers the outside world may give in this run
    tree,            \* the syntax tree handed to the remarkHighlight transform
    treeBefore,      \* the tree as it was before the first transform
    applied,         \* number of times the transform has run on tree
    pipeline,        \* the pipeline that processes tree, and the plugins it ran
    count,           \* Counter: the count of the latest render (useState)
    queue,           \* Counter: state updates queued since the latest render
    plus,            \* Counter: number of clicks on +1 so far
    minus,           \* Counter: number of clicks on -1 so far
    fresh            \* Counter: every click so far followed a re-render

fetchVars == <<env, propertyId, credentialsJson, googleAppCreds, pc, trace,
               clientOptions, response, result, calls, mockTopPages, history,
               world>>
highlightVars == <<tree, treeBefore, applied, pipeline>>
counterVars == <<count, queue, plus, minus, fresh>>
vars == <<fetchVars, highlightVars, counterVars>>

(***************************************************************************)
(* Bounds of the model.                                                    *)
(***************************************************************************)
MaxCalls == 2
MaxRows == 2
MaxNodes == 3
MaxRuns == 2
MaxClicks == 4
MaxEnvChanges == 2

(***************************************************************************)
(* JavaScript values.                                                      *)
(***************************************************************************)
\* undefined: a value that no string is equal to
Undefined == [undefined |-> TRUE]

\* A string value.  Str(s) is a string the code never looks into (a property
\* identifier, a file name, a title), held as the TLA+ string s; Text(cs) is
\* a string the code reads character by character, held as the sequence cs
\* of its UTF-16 code units; Path(p) is a page path, held as the sequence p
\* of its segments, each "/" or a non-empty run of other characters.
Str(s) == [str |-> s]
Text(cs) == [text |-> cs]
Path(p) == [path |-> p]

\* !!v for a value that is a string or undefined
Truthy(v) == v \notin {Undefined, Str(""), Text(<<>>), Path(<<>>)}

\* a || b
Or(a, b) == IF Truthy(a) THEN a ELSE b

\* The printable ASCII characters from code unit 32 to code unit 95, and
\* those from code unit 97 to code unit 126
AsciiTo95 ==
    << " ", "!", "\"", "#", "$", "%", "&", "'", "(", ")", "*", "+", ",", "-",
       ".", "/", "0", "1", "2", "3", "4", "5", "6", "7", "8", "9", ":", ";",
       "<", "=", ">", "?", "@", "A", "B", "C", "D", "E", "F", "G", "H", "I",
       "J", "K", "L", "M", "N", "O", "P", "Q", "R", "S", "T", "U", "V", "W",
       "X", "Y", "Z", "[", "\\", "]", "^", "_" >>
AsciiFrom97 ==
    << "a", "b", "c", "d", "e", "f", "g", "h", "i", "j", "k", "l", "m", "n",
       "o", "p", "q", "r", "s", "t", "u", "v", "w", "x", "y", "z", "{", "|",
       "}", "~" >>

\* The code units of a string of printable ASCII characters, given as the
\* sequence of its characters
Codes(chars) ==
    [k \in DOMAIN chars |->
        IF \E n \in DOMAIN AsciiTo95 : AsciiTo95[n] = chars[k]
        THEN 31 + (CHOOSE n \in DOMAIN AsciiTo95 : AsciiTo95[n] = chars[k])
        ELSE 96 + (CHOOSE n \in DOMAIN AsciiFrom97 : AsciiFrom97[n] = chars[k])]

\* {} : an object with no keys
EmptyObject == <<>>

\* obj with obj[key] = value (key added when absent)
SetKey(obj, key, value) ==
    [k \in DOMAIN obj \cup {key} |-> IF k = key THEN value ELSE obj[k]]

(***************************************************************************)
(* The numbers of JavaScript.  A number is a double: the results of        *)
(* JSON.parse and of parseInt are the doubles nearest to the decimal       *)
(* numbers read, ties going to the even significand, infinite from 2^1024  *)
(* - 2^970 on.  The arithmetic is done on natural numbers of any size,     *)
(* each the sequence of its decimal digits, the first not 0; 0 is <<>>.    *)
(***************************************************************************)
\* The first position of s at or after i whose element is not in S, or the
\* position after the end of s when there is none
RunEnd(s, i, S) ==
    IF i > Len(s) THEN i
    ELSE CHOOSE k \in i..(Len(s) + 1) :
            /\ k = Len(s) + 1 \/ s[k] \notin S
            /\ \A j \in i..(k - 1) : s[j] \in S

\* The first position of s at or after i whose element is in S, or the
\* position after the end of s when there is none
FirstIn(s, i, S) ==
    IF i > Len(s) THEN i
    ELSE CHOOSE k \in i..(Len(s) + 1) :
            /\ k = Len(s) + 1 \/ s[k] \in S
            /\ \A j \in i..(k - 1) : s[j] \notin S

\* The natural number with the digits ds, which may start with zeros
Natural(ds) == SubSeq(ds, RunEnd(ds, 1, {0}), Len(ds))

\* The digits of the natural number n of TLA+
RECURSIVE DecimalDigits(_)
DecimalDigits(n) ==
    IF n = 0 THEN <<>> ELSE Append(DecimalDigits(n \div 10), n % 10)

\* a < b
Less(a, b) ==
    IF Len(a) # Len(b) THEN Len(a) < Len(b)
    ELSE \E k \in DOMAIN a : a[k] < b[k] /\ \A j \in 1..(k - 1) : a[j] = b[j]

\* 2 * a + c for c in {0, 1}: a digit takes a carry when the digit after it
\* is 5 or more
Twice(a, c) ==
    Natural([k \in 1..(Len(a) + 1) |->
                (IF k = 1 THEN 0 ELSE (2 * a[k - 1]) % 10)
                + (IF k = Len(a) + 1 THEN c ELSE IF a[k] >= 5 THEN 1 ELSE 0)])

\* a \div 2: a digit takes 10 when the digit before it is odd
Half(a) ==
    Natural([k \in DOMAIN a |->
                (a[k] + (IF k > 1 /\ a[k - 1] % 2 = 1 THEN 10 ELSE 0)) \div 2])

\* a + 1: a digit takes a carry when the digits after it are all 9
Succ(a) ==
    Natural([k \in 1..(Len(a) + 1) |->
                ((IF k = 1 THEN 0 ELSE a[k - 1])
                 + (IF \A j \in k..Len(a) : a[j] = 9 THEN 1 ELSE 0)) % 10])

\* a * 2^e: the doublings are done half of them at a time, so that the
\* operator is nested no deeper than the binary logarithm of e
RECURSIVE TimesPow2(_, _)
TimesPow2(a, e) ==
    IF a = <<>> \/ e = 0 THEN a
    ELSE IF e > 1 THEN TimesPow2(TimesPow2(a, e \div 2), e - e \div 2)
    ELSE Twice(a, 0)

\* 2^53: a significand has 53 bits, so that it is less than 2^53
TwoTo53 == <<9, 0, 0, 7, 1, 9, 9, 2, 5, 4, 7, 4, 0, 9, 9, 2>>

\* A positive number cut to q * 2^e: q is what is left of its bits, half
\* tells whether the last bit cut off is 1 and rest whether a bit cut off
\* before it is.  Bits are cut off, up to steps of them, until q is a
\* significand and e is -1074 or more, the exponent of the least double.
RECURSIVE CutBits(_, _)
CutBits(cut, steps) ==
    IF steps = 0 \/ (Less(cut.q, TwoTo53) /\ cut.e >= 0 - 1074) THEN cut
    ELSE IF steps > 1
    THEN CutBits(CutBits(cut, steps \div 2), steps - steps \div 2)
    ELSE [q |-> Half(cut.q), e |-> cut.e + 1,
          half |-> cut.q # <<>> /\ cut.q[Len(cut.q)] % 2 = 1,
          rest |-> cut.half \/ cut.rest]

\* The double q * 2^e without its sign
Finite(q, e) == [infinite |-> FALSE, significand |-> q, exponent |-> e]

\* q * 2^e as a double, for q up to 2^53: infinite from 2^1024 on
Overflow(q, e) ==
    IF q # <<>> /\ (e > 971 \/ (e = 971 /\ q = TwoTo53))
    THEN [infinite |-> TRUE]
    ELSE Finite(q, e)

\* The double nearest to the number that was cut: q * 2^e when less than
\* half of 2^e was cut off, (q + 1) * 2^e when more was, and the one of the
\* two with the even significand when half was
Round(cut) ==
    Overflow(IF /\ cut.half
                /\ cut.rest \/ (cut.q # <<>> /\ cut.q[Len(cut.q)] % 2 = 1)
             THEN Succ(cut.q) ELSE cut.q,
             cut.e)

\* The double nearest to n * 2^e, or to a number between n * 2^e and
\* (n + 1) * 2^e when more is TRUE.  n has fewer than 4 bits for each of
\* its digits, and no more bits than n has, and 3, are cut off a number
\* that is 10^-324 or more.
Nearest(n, e, more) ==
    Round(CutBits([q |-> n, e |-> e, half |-> FALSE, rest |-> more],
                  4 * Len(n) + 4))

\* d as q * 2^e with an odd q, and 0 as 0 * 2^0, so that a double is
\* written in one way only: q, of 54 bits or fewer, is halved up to steps
\* times
RECURSIVE Reduce(_, _)
Reduce(d, steps) ==
    IF d.significand = <<>> THEN Finite(<<>>, 0)
    ELSE IF steps = 0 \/ d.significand[Len(d.significand)] % 2 = 1 THEN d
    ELSE IF steps > 1
    THEN Reduce(Reduce(d, steps \div 2), steps - steps \div 2)
    ELSE Finite(Half(d.significand), d.exponent + 1)

\* The double d with the sign given: 0 and -0 are two doubles
Signed(negative, d) ==
    [negative |-> negative] @@ (IF d.infinite THEN d ELSE Reduce(d, 64))

\* The double nearest to ds / 10^m, for m > 0, given p = ds * 2^s with s
\* so large that p / 10^m has 54 bits or more: the digits of p but the
\* last m are its quotient
Quotient(p, m, s) ==
    Nearest(SubSeq(p, 1, Len(p) - m), 0 - s,
            \E k \in (Len(p) - m + 1)..Len(p) : p[k] # 0)

\* The double nearest to ds * 10^e, for the natural number ds: infinite
\* from 10^309 on, 0 below 10^-323
Double(negative, ds, e) ==
    Signed(negative,
           IF ds = <<>> \/ e + Len(ds) < 0 - 323 THEN Finite(<<>>, 0)
           ELSE IF e + Len(ds) > 309 THEN [infinite |-> TRUE]
           ELSE IF e >= 0 THEN Nearest(ds \o [k \in 1..e |-> 0], 0, FALSE)
           ELSE Quotient(TimesPow2(ds, 54 + (10 * (0 - e)) \div 3 + 1), 0 - e,
                         54 + (10 * (0 - e)) \div 3 + 1))

\* A number that parseInt gives or a view count holds: NaN, an infinite one,
\* or an integer, written with the digits of its absolute value
NaN == [isNaN |-> TRUE]
Infinity(negative) == [isNaN |-> FALSE, negative |-> negative, infinite |-> TRUE]
Integer(negative, ds) ==
    [isNaN |-> FALSE, negative |-> negative, infinite |-> FALSE, digits |-> ds]

\* The number n of TLA+
Num(n) == Integer(n < 0, DecimalDigits(IF n < 0 THEN 0 - n ELSE n))

\* The integer that the double d is
IntegerOf(negative, d) ==
    IF d.infinite THEN Infinity(negative)
    ELSE Integer(negative, TimesPow2(d.significand, d.exponent))

\* The double nearest to the natural number ds, with the sign given: ds
\* itself up to 2^53, infinite from 310 digits on
NearestInteger(negative, ds) ==
    IF Len(ds) > 309 THEN Infinity(negative)
    ELSE IntegerOf(negative, Nearest(ds, 0, FALSE))

(***************************************************************************)
(* analytics.ts: module-level configuration.                               *)
(***************************************************************************)
\* {"client_email":"inline"}
InlineJson ==
    Codes(<<
          "{", "\"", "c", "l", "i", "e", "n", "t", "_", "e", "m", "a", "i",
          "l", "\"", ":", "\"", "i", "n", "l", "i", "n", "e", "\"", "}" >>)
\* { "client_email": "keyfile" } and a line feed
KeyFileJson ==
    Codes(<<
          "{", " ", "\"", "c", "l", "i", "e", "n", "t", "_", "e", "m", "a", "i",
          "l", "\"", ":", " ", "\"", "k", "e", "y", "f", "i", "l", "e", "\"",
          " ", "}" >>) \o <<10>>
\* {not json
BadJson ==
    Codes(<<
          "{", "n", "o", "t", " ", "j", "s", "o", "n" >>)

\* The environments the module may be loaded in.
Envs ==
    [meta : [GA_PROPERTY_ID : {Undefined, Str("111")},
             GOOGLE_APPLICATION_CREDENTIALS_JSON : {Undefined, Text(InlineJson)},
             GOOGLE_APPLICATION_CREDENTIALS : {Undefined, Str("meta-key.json")}],
     proc : [GA_PROPERTY_ID : {Undefined, Str(""), Str("undefined")},
             GOOGLE_APPLICATION_CREDENTIALS_JSON : {Undefined, Text(BadJson)},
             GOOGLE_APPLICATION_CREDENTIALS : {Undefined, Str("proc-key.json")}]]

\* Environments that set values in import.meta.env only
MetaEnvs ==
    {e \in Envs : /\ e.proc.GA_PROPERTY_ID = Undefined
                  /\ e.proc.GOOGLE_APPLICATION_CREDENTIALS_JSON = Undefined
                  /\ e.proc.GOOGLE_APPLICATION_CREDENTIALS = Undefined}

LoadPropertyId(e) == Or(e.meta.GA_PROPERTY_ID, e.proc.GA_PROPERTY_ID)
LoadCredentialsJson(e) ==
    Or(e.meta.GOOGLE_APPLICATION_CREDENTIALS_JSON,
       e.proc.GOOGLE_APPLICATION_CREDENTIALS_JSON)
LoadGoogleAppCreds(e) ==
    Or(e.meta.GOOGLE_APPLICATION_CREDENTIALS,
       e.proc.GOOGLE_APPLICATION_CREDENTIALS)

\* A path below '/en/blog/'.
BlogPrefix == <<"/", "en", "/", "blog", "/">>
BlogPath(slug) == BlogPrefix \o slug

MOCK_TOP_PAGES ==
    << [path |-> BlogPath(<<"aws_lambda_a_virtual_podcast">>), views |-> Num(1250),
        title |-> "AWS Lambda: A Virtual Podcast"],
       [path |-> BlogPath(<<"diving_into_rust">>), views |-> Num(980),
        title |-> "Diving into Rust"],
       [path |-> BlogPath(<<"bloom_filter">>), views |-> Num(850),
        title |-> "Bloom Filter: A Probabilistic Data Structure"],
       [path |-> BlogPath(<<"bitcask">>), views |-> Num(720),
        title |-> "Bitcask: A Log-Structured Hash Table for Fast Key/Value Data"],
       [path |-> BlogPath(<<"designing_lfu_cache">>), views |-> Num(640),
        title |-> "Designing LFU Cache"] >>

(***************************************************************************)
(* The outside world of fetchTopEssays: JSON.parse, the key file, the      *)
(* analytics client and the content collection.                            *)
(***************************************************************************)
\* JSON.parse reads its text as the JSON grammar says.  A text is the
\* sequence of its code units; a position past its end holds EndOfText.
EndOfText == 0 - 1
At(s, i) == IF i \in DOMAIN s THEN s[i] ELSE EndOfText

\* The values JSON.parse gives: [null |-> TRUE], [boolean |-> b], and those
\* below.  An object is a function from its keys, each the code units of a
\* string, to its values; a number is a double.
JsonNumber(d) == [number |-> d]
JsonString(cs) == [string |-> cs]
JsonArray(items) == [array |-> items]
JsonObject(members) == [object |-> members]

\* What a parsing step gives: the value read and the position after it, or
\* a syntax error
Parsed(v, i) == [ok |-> TRUE, value |-> v, next |-> i]
SyntaxError == [ok |-> FALSE]

\* The position of the first code unit at or after i that is not JSON white
\* space (tab, line feed, carriage return, space)
SkipWhiteSpace(s, i) == RunEnd(s, i, {9, 10, 13, 32})

IsDigit(c) == c \in 48..57

\* The digits at the positions i to j - 1 of s
DigitsAt(s, i, j) == [k \in 1..(j - i) |-> s[i + k - 1] - 48]

\* The value of the natural number ds, or 10^9 when it is that or more: a
\* text has fewer than 2^30 code units, so that a number with such an
\* exponent is 0 or infinite whatever its digits are
RECURSIVE Capped(_)
Capped(ds) ==
    IF Len(ds) > 9 THEN 1000000000
    ELSE IF ds = <<>> THEN 0
    ELSE 10 * Capped(SubSeq(ds, 1, Len(ds) - 1)) + ds[Len(ds)]

\* The end of a number with the digits ds, f of them after the '.', read
\* up to position i: an optional e or E with an optional sign and one digit
\* or more
ScanExponent(s, negative, ds, f, i) ==
    LET first == IF At(s, i + 1) \in {43, 45} THEN i + 2 ELSE i + 1
        end == RunEnd(s, first, 48..57)
        x == Capped(Natural(DigitsAt(s, first, end)))
    IN  IF At(s, i) \in {69, 101} /\ end = first THEN SyntaxError
        ELSE Parsed(JsonNumber(Double(negative, Natural(ds),
                        IF At(s, i) \notin {69, 101} THEN 0 - f
                        ELSE IF At(s, i + 1) = 45 THEN 0 - x - f
                        ELSE x - f)),
                    IF At(s, i) \in {69, 101} THEN end ELSE i)

\* What follows the digits int of a number, read up to position i: an
\* optional '.' with one digit or more, then the end of the number
ScanFraction(s, negative, int, i) ==
    LET end == RunEnd(s, i + 1, 48..57)
    IN  IF At(s, i) = 46 /\ end = i + 1 THEN SyntaxError
        ELSE ScanExponent(s, negative,
                          IF At(s, i) = 46 THEN int \o DigitsAt(s, i + 1, end)
                          ELSE int,
                          IF At(s, i) = 46 THEN end - (i + 1) ELSE 0,
                          IF At(s, i) = 46 THEN end ELSE i)

\* A number from position i, after its optional '-' (read by the caller,
\* who gives negative): 0 or a run of digits that does not start with 0,
\* then what follows them
ScanNumber(s, i, negative) ==
    LET end == IF At(s, i) = 48 THEN i + 1 ELSE RunEnd(s, i, 48..57)
    IN  IF end = i THEN SyntaxError
        ELSE ScanFraction(s, negative, DigitsAt(s, i, end), end)

\* The value of the hexadecimal digit c, or EndOfText when c is none
HexValue(c) ==
    IF c \in 48..57 THEN c - 48
    ELSE IF c \in 65..70 THEN c - 55
    ELSE IF c \in 97..102 THEN c - 87
    ELSE EndOfText

\* The code unit that the escape \c stands for, or EndOfText when \c is no
\* escape of one character
EscapeValue(c) ==
    CASE c = 34 -> 34 [] c = 92 -> 92 [] c = 47 -> 47 [] c = 98 -> 8
      [] c = 102 -> 12 [] c = 110 -> 10 [] c = 114 -> 13 [] c = 116 -> 9
      [] OTHER -> EndOfText

\* The characters of a string from position i, after its opening quote, up
\* to its closing quote, added to acc: a run of code units that stand for
\* themselves, or an escape; a code unit below 32 is an error
RECURSIVE ParseChars(_, _, _)
ParseChars(s, i, acc) ==
    LET c == At(s, i)
        hex == [k \in 1..4 |-> HexValue(At(s, i + 1 + k))]
        escape == EscapeValue(At(s, i + 1))
        end == FirstIn(s, i, 0..31 \cup {34, 92})
    IN  IF c = 34 THEN Parsed(JsonString(acc), i + 1)
        ELSE IF c < 32 THEN SyntaxError
        ELSE IF c # 92 THEN ParseChars(s, end, acc \o SubSeq(s, i, end - 1))
        ELSE IF At(s, i + 1) = 117
        THEN IF \E k \in 1..4 : hex[k] = EndOfText THEN SyntaxError
             ELSE ParseChars(s, i + 6,
                    Append(acc, 4096 * hex[1] + 256 * hex[2] + 16 * hex[3] + hex[4]))
        ELSE IF escape = EndOfText THEN SyntaxError
        ELSE ParseChars(s, i + 2, Append(acc, escape))

\* The word (true, false or null) at position i, which stands for v
ParseWord(s, i, word, v) ==
    IF \A k \in DOMAIN word : At(s, i + k - 1) = word[k]
    THEN Parsed(v, i + Len(word)) ELSE SyntaxError

RECURSIVE ParseValue(_, _)
RECURSIVE ParseElements(_, _, _)
RECURSIVE ParseMembers(_, _, _)

\* A value at position i, which holds no white space
ParseValue(s, i) ==
    LET c == At(s, i)
        inner == SkipWhiteSpace(s, i + 1)
    IN  CASE c = 123 -> IF At(s, inner) = 125
                        THEN Parsed(JsonObject(EmptyObject), inner + 1)
                        ELSE ParseMembers(s, inner, EmptyObject)
          [] c = 91 -> IF At(s, inner) = 93
                       THEN Parsed(JsonArray(<<>>), inner + 1)
                       ELSE ParseElements(s, inner, <<>>)
          [] c = 34 -> ParseChars(s, i + 1, <<>>)
          [] c = 45 \/ IsDigit(c) ->
                ScanNumber(s, IF c = 45 THEN i + 1 ELSE i, c = 45)
          [] c = 116 -> ParseWord(s, i, <<116, 114, 117, 101>>, [boolean |-> TRUE])
          [] c = 102 -> ParseWord(s, i, <<102, 97, 108, 115, 101>>,
                                  [boolean |-> FALSE])
          [] c = 110 -> ParseWord(s, i, <<110, 117, 108, 108>>, [null |-> TRUE])
          [] OTHER -> SyntaxError

\* What follows the element of an array, read and added to acc: a comma and
\* the next element, or the closing bracket
AfterElement(s, element, acc) ==
    LET after == SkipWhiteSpace(s, element.next)
    IN  IF ~element.ok THEN SyntaxError
        ELSE IF At(s, after) = 44
        THEN ParseElements(s, SkipWhiteSpace(s, after + 1),
                           Append(acc, element.value))
        ELSE IF At(s, after) = 93
        THEN Parsed(JsonArray(Append(acc, element.value)), after + 1)
        ELSE SyntaxError

\* The elements of an array from the element at position i, added to acc,
\* up to the closing bracket
ParseElements(s, i, acc) == AfterElement(s, ParseValue(s, i), acc)

\* What follows the value of the member of an object named key, read and
\* set in acc: a comma and the next member, or the closing brace; a key
\* that comes twice keeps its last value
AfterMember(s, key, member, acc) ==
    LET after == SkipWhiteSpace(s, member.next)
    IN  IF ~member.ok THEN SyntaxError
        ELSE IF At(s, after) = 44
        THEN ParseMembers(s, SkipWhiteSpace(s, after + 1),
                          SetKey(acc, key, member.value))
        ELSE IF At(s, after) = 125
        THEN Parsed(JsonObject(SetKey(acc, key, member.value)), after + 1)
        ELSE SyntaxError

\* What follows the key of a member: a colon and the value of the member
AfterKey(s, key, acc) ==
    LET colon == SkipWhiteSpace(s, key.next)
    IN  IF ~key.ok THEN SyntaxError
        ELSE IF At(s, colon) # 58 THEN SyntaxError
        ELSE AfterMember(s, key.value.string,
                         ParseValue(s, SkipWhiteSpace(s, colon + 1)), acc)

\* The members of an object from the member at position i, set in acc, up
\* to the closing brace
ParseMembers(s, i, acc) ==
    IF At(s, i) = 34 THEN AfterKey(s, ParseChars(s, i + 1, <<>>), acc)
    ELSE SyntaxError

\* The value parsed, when it is followed by white space only
WholeText(text, parsed) ==
    IF parsed.ok /\ SkipWhiteSpace(text, parsed.next) = Len(text) + 1
    THEN [ok |-> TRUE, value |-> parsed.value]
    ELSE SyntaxError

\* JSON.parse(text): [ok |-> TRUE, value |-> v] when text is one JSON value
\* with white space around it, [ok |-> FALSE] when it throws a SyntaxError
JsonParse(text) == WholeText(text, ParseValue(text, SkipWhiteSpace(text, 1)))

\* Whether process.cwd() gives the working directory (it throws when the
\* directory is gone), and what fs finds at the resolved key path.
KeyFiles ==
    { [cwd |-> FALSE],
      [cwd |-> TRUE, exists |-> FALSE],
      [cwd |-> TRUE, exists |-> TRUE, readable |-> FALSE],
      [cwd |-> TRUE, exists |-> TRUE, readable |-> TRUE, content |-> KeyFileJson],
      [cwd |-> TRUE, exists |-> TRUE, readable |-> TRUE, content |-> BadJson] }

\* The steps an invocation can perform, as recorded in trace.
WARN_NO_PROPERTY == "console.warn: GA_PROPERTY_ID not found"
WARN_NO_CREDENTIALS == "console.warn: credentials not found"
WARN_NO_KEY_FILE == "console.warn: Key file does not exist"
ERROR_KEY_FILE == "console.error: Failed to read key file"
WARN_NO_PAGES == "console.warn: No top pages found after filtering"
ERROR_FETCH == "console.error: Error fetching data from Google Analytics"
LogEvents == {WARN_NO_PROPERTY, WARN_NO_CREDENTIALS, WARN_NO_KEY_FILE,
              ERROR_KEY_FILE, WARN_NO_PAGES, ERROR_FETCH}
THROW == "throw"
PARSE_INLINE == "JSON.parse(credentialsJson)"
CWD == "process.cwd"
EXISTS_SYNC == "fs.existsSync"
READ_FILE == "fs.readFileSync"
PARSE_KEY == "JSON.parse(keyContent)"
NEW_CLIENT == "new BetaAnalyticsDataClient"
RUN_REPORT == "runReport"
REPORT_RESOLVED == "runReport resolved"
GET_COLLECTION == "getCollection"
COLLECTION_RESOLVED == "getCollection resolved"
FILTER == "rows.forEach"
RETURN_MOCK == "return MOCK_TOP_PAGES"
RETURN_LIVE == "return topPages"

\* Number of occurrences of event e in sequence t
RECURSIVE Count(_, _)
Count(t, e) ==
    IF t = <<>> THEN 0
    ELSE (IF t[1] = e THEN 1 ELSE 0) + Count(Tail(t), e)

\* Whether t holds an event of set S
Has(t, S) == \E k \in DOMAIN t : t[k] \in S

(***************************************************************************)
(* analytics.ts: the row filter (lines 117-141).                           *)
(***************************************************************************)
\* The code units that parseInt skips at the start of its string: the white
\* space and the line terminators of ECMAScript (StrWhiteSpaceChar)
StrWhiteSpaceChar ==
    {9, 10, 11, 12, 13, 32, 160, 5760, 8232, 8233, 8239, 8287, 12288, 65279}
    \cup 8192..8202

\* The natural number that the longest run of digits that starts s reads as
DigitRun(s) == Natural(DigitsAt(s, 1, RunEnd(s, 1, 48..57)))

TrimStart(s) == SubSeq(s, RunEnd(s, 1, StrWhiteSpaceChar), Len(s))

\* parseInt(s, 10) for the code units s: leading white space skipped, an
\* optional sign, then the longest run of digits, read as the double
\* nearest to it; NaN when there is none
ParseInt(s) ==
    LET t == TrimStart(s)
        signed == t # <<>> /\ t[1] \in {43, 45}
        body == IF signed THEN Tail(t) ELSE t
    IN  IF body = <<>> \/ ~IsDigit(body[1]) THEN NaN
        ELSE NearestInteger(signed /\ t[1] = 45, DigitRun(body))

\* Whether row[field]?.[0]?.value is a string
HasFirstValue(row, field) ==
    /\ field \in DOMAIN row
    /\ Len(row[field]) >= 1
    /\ "value" \in DOMAIN row[field][1]

\* const path = row.dimensionValues?.[0]?.value
RowPath(row) ==
    IF HasFirstValue(row, "dimensionValues")
    THEN Path(row.dimensionValues[1].value) ELSE Undefined

\* const views = parseInt(row.metricValues?.[0]?.value || '0', 10)
RowViews(row) ==
    LET value == IF HasFirstValue(row, "metricValues")
                 THEN Text(row.metricValues[1].value) ELSE Undefined
    IN  ParseInt(Or(value, Text(<<48>>)).text)

\* Variant: views >= 0
PositiveOrZero(views) ==
    /\ ~views.isNaN
    /\ ~views.negative \/ (~views.infinite /\ views.digits = <<>>)

\* views > 0 (false for NaN)
Positive(views) ==
    /\ ~views.isNaN
    /\ ~views.negative
    /\ views.infinite \/ views.digits # <<>>

\* path.endsWith('/') && path.length > 1 ? path.slice(0, -1) : path
\* (a path that ends with "/" is longer than one character exactly when it
\* has more than one segment)
NormalizePath(path) ==
    IF path # <<>> /\ path[Len(path)] = "/" /\ Len(path) > 1
    THEN SubSeq(path, 1, Len(path) - 1)
    ELSE path

\* The Map built at lines 118-120, as the sequence of its set() calls: first
\* every '/en/blog/<slug>', then every '/en/blog/<slug>/'
BlogMapEntries(blogEntries) ==
    [k \in 1..Len(blogEntries) |->
        [key |-> BlogPath(blogEntries[k].slug), title |-> blogEntries[k].title]]
    \o
    [k \in 1..Len(blogEntries) |->
        [key |-> BlogPath(blogEntries[k].slug) \o <<"/">>,
         title |-> blogEntries[k].title]]

\* blogMap.get(key): the title of the last set() for key, or undefined
BlogMapGet(blogEntries, key) ==
    LET m == BlogMapEntries(blogEntries)
        hits == {k \in DOMAIN m : m[k].key = key}
    IN  IF hits = {} THEN Undefined
        ELSE Str(m[CHOOSE k \in hits : \A j \in hits : j <= k].title)

\* const title = blogMap.get(path) || blogMap.get(normalizedPath)
RowTitle(blogEntries, path) ==
    Or(BlogMapGet(blogEntries, path),
       BlogMapGet(blogEntries, NormalizePath(path)))

\* Whether the forEach callback pushes a record for row
RowKept(blogEntries, row) ==
    /\ Truthy(RowPath(row))
    /\ Positive(RowViews(row))
    /\ Truthy(RowTitle(blogEntries, RowPath(row).path))

\* Variant: a record is put at the front of topPages (unshift)
RECURSIVE PushRowsReversed(_, _, _)
PushRowsReversed(blogEntries, rows, topPages) ==
    IF rows = <<>> THEN topPages
    ELSE PushRowsReversed(blogEntries, Tail(rows),
            IF RowKept(blogEntries, rows[1])
            THEN <<[path |-> RowPath(rows[1]).path, views |-> RowViews(rows[1]),
                    title |-> RowTitle(blogEntries, RowPath(rows[1]).path).str]>>
                 \o topPages
            ELSE topPages)

\* response.rows?.forEach(...): topPages after the rows have been visited
RECURSIVE PushRows(_, _, _)
PushRows(blogEntries, rows, topPages) ==
    IF rows = <<>> THEN topPages
    ELSE PushRows(blogEntries, Tail(rows),
            IF RowKept(blogEntries, rows[1])
            THEN Append(topPages,
                    [path |-> RowPath(rows[1]).path, views |-> RowViews(rows[1]),
                     title |-> RowTitle(blogEntries, RowPath(rows[1]).path).str])
            ELSE topPages)

TopPages(blogEntries, resp) ==
    IF "rows" \in DOMAIN resp THEN PushRows(blogEntries, resp.rows, <<>>)
    ELSE <<>>

(***************************************************************************)
(* analytics.ts: fetchTopEssays (lines 45-154).  An invocation runs in     *)
(* three uninterrupted stretches, separated by its two awaits.  Each       *)
(* stretch is an operator from what the invocation holds and what the      *)
(* outside world answers to                                                *)
(*   [pc, trace, options, response, result],                               *)
(* where response is the report response the invocation holds (kept after  *)
(* it returns, for reference) and result is what it returned.              *)
(***************************************************************************)
Outcome(p, t, o, resp, res) ==
    [pc |-> p, trace |-> t, options |-> o, response |-> resp, result |-> res]

\* return MOCK_TOP_PAGES after the steps t: the module's array itself
ReturnMock(t, o, resp) ==
    Outcome("returned", t \o <<RETURN_MOCK>>, o, resp, mockTopPages)

\* lines 150-153: the catch block of the outer try, entered after the steps t
Catch(t, o, resp) == ReturnMock(t \o <<ERROR_FETCH>>, o, resp)

\* Variant: no inner try, a failure on the key file reaches the outer catch
ReadKeyFilePropagate(keyFile) ==
    IF ~keyFile.cwd
    THEN [trace |-> <<CWD, THROW>>, threw |-> TRUE, options |-> EmptyObject]
    ELSE IF ~keyFile.exists
    THEN [trace |-> <<CWD, EXISTS_SYNC, WARN_NO_KEY_FILE>>, threw |-> FALSE,
          options |-> EmptyObject]
    ELSE IF ~keyFile.readable
    THEN [trace |-> <<CWD, EXISTS_SYNC, READ_FILE, THROW>>,
          threw |-> TRUE, options |-> EmptyObject]
    ELSE IF ~JsonParse(keyFile.content).ok
    THEN [trace |-> <<CWD, EXISTS_SYNC, READ_FILE, PARSE_KEY, THROW>>,
          threw |-> TRUE, options |-> EmptyObject]
    ELSE [trace |-> <<CWD, EXISTS_SYNC, READ_FILE, PARSE_KEY>>, threw |-> FALSE,
          options |-> SetKey(EmptyObject, "credentials",
                             JsonParse(keyFile.content).value)]

\* lines 63-74: the inner try around the key file; never throws to its
\* caller.  Line 65 resolves the path of the key file against
\* process.cwd(), which throws when the working directory is gone: the
\* catch block logs that as it logs a failure of fs or of JSON.parse.
ReadKeyFile(keyFile) ==
    IF ~keyFile.cwd
    THEN [trace |-> <<CWD, THROW, ERROR_KEY_FILE>>, threw |-> FALSE,
          options |-> EmptyObject]
    ELSE IF ~keyFile.exists
    THEN [trace |-> <<CWD, EXISTS_SYNC, WARN_NO_KEY_FILE>>, threw |-> FALSE,
          options |-> EmptyObject]
    ELSE IF ~keyFile.readable
    THEN [trace |-> <<CWD, EXISTS_SYNC, READ_FILE, THROW, ERROR_KEY_FILE>>,
          threw |-> FALSE, options |-> EmptyObject]
    ELSE IF ~JsonParse(keyFile.content).ok
    THEN [trace |-> <<CWD, EXISTS_SYNC, READ_FILE, PARSE_KEY, THROW,
                      ERROR_KEY_FILE>>,
          threw |-> FALSE, options |-> EmptyObject]
    ELSE [trace |-> <<CWD, EXISTS_SYNC, READ_FILE, PARSE_KEY>>, threw |-> FALSE,
          options |-> SetKey(EmptyObject, "credentials",
                             JsonParse(keyFile.content).value)]

\* Variant: the key-file path is looked at first
ResolveCredentialsKeyFileFirst(cj, gac, keyFile) ==
    IF Truthy(gac)
    THEN ReadKeyFile(keyFile)
    ELSE IF Truthy(cj)
    THEN IF JsonParse(cj.text).ok
         THEN [trace |-> <<PARSE_INLINE>>, threw |-> FALSE,
               options |-> SetKey(EmptyObject, "credentials", JsonParse(cj.text).value)]
         ELSE [trace |-> <<PARSE_INLINE, THROW>>, threw |-> TRUE,
               options |-> EmptyObject]
    ELSE [trace |-> <<>>, threw |-> FALSE, options |-> EmptyObject]

\* Variant: inline credentials that do not parse give way to the key file
ResolveCredentialsLenient(cj, gac, keyFile) ==
    IF Truthy(cj) /\ JsonParse(cj.text).ok
    THEN [trace |-> <<PARSE_INLINE>>, threw |-> FALSE,
          options |-> SetKey(EmptyObject, "credentials", JsonParse(cj.text).value)]
    ELSE IF Truthy(gac)
    THEN LET read == ReadKeyFile(keyFile)
         IN  [read EXCEPT !.trace =
                (IF Truthy(cj) THEN <<PARSE_INLINE, THROW>> ELSE <<>>) \o @]
    ELSE IF Truthy(cj)
    THEN [trace |-> <<PARSE_INLINE, THROW>>, threw |-> TRUE,
          options |-> EmptyObject]
    ELSE [trace |-> <<>>, threw |-> FALSE, options |-> EmptyObject]

\* lines 59-75: clientOptions, and whether building it threw out of the block
ResolveCredentials(cj, gac, keyFile) ==
    IF Truthy(cj)
    THEN IF JsonParse(cj.text).ok
         THEN [trace |-> <<PARSE_INLINE>>, threw |-> FALSE,
               options |-> SetKey(EmptyObject, "credentials", JsonParse(cj.text).value)]
         ELSE [trace |-> <<PARSE_INLINE, THROW>>, threw |-> TRUE,
               options |-> EmptyObject]
    ELSE IF Truthy(gac)
    THEN ReadKeyFile(keyFile)
    ELSE [trace |-> <<>>, threw |-> FALSE, options |-> EmptyObject]

\* Variant: only an undefined identifier counts as missing
MissingPropertyStrict(pid) == pid = Undefined

\* Variant: the guard reads the environment when the function is called
MissingPropertyNow(pid) == ~Truthy(LoadPropertyId(env))

\* line 47
MissingProperty(pid) == ~Truthy(pid)

\* Variant: one missing credential source is enough to give up
MissingCredentialsEither(cj, gac) == ~Truthy(cj) \/ ~Truthy(gac)

\* line 53
MissingCredentials(cj, gac) == ~Truthy(cj) /\ ~Truthy(gac)

\* Variant: the client is constructed outside the try block, so that its
\* exception rejects the promise
TryFetchUncaught(cj, gac, keyFile, ctorThrows) ==
    LET cred == ResolveCredentials(cj, gac, keyFile)
    IN  IF cred.threw THEN Catch(cred.trace, cred.options, EmptyObject)
        ELSE IF ctorThrows
        THEN Outcome("rejected", cred.trace \o <<NEW_CLIENT, THROW>>,
                     cred.options, EmptyObject, <<>>)
        ELSE Outcome("awaitReport", cred.trace \o <<NEW_CLIENT, RUN_REPORT>>,
                     cred.options, EmptyObject, <<>>)

\* Variant: without credentials in clientOptions the client is not
\* constructed and the fallback list is returned
TryFetchNeedsCredentials(cj, gac, keyFile, ctorThrows) ==
    LET cred == ResolveCredentials(cj, gac, keyFile)
    IN  IF cred.threw THEN Catch(cred.trace, cred.options, EmptyObject)
        ELSE IF cred.options = EmptyObject
        THEN ReturnMock(cred.trace, cred.options, EmptyObject)
        ELSE IF ctorThrows
        THEN Catch(cred.trace \o <<NEW_CLIENT, THROW>>, cred.options, EmptyObject)
        ELSE Outcome("awaitReport", cred.trace \o <<NEW_CLIENT, RUN_REPORT>>,
                     cred.options, EmptyObject, <<>>)

\* lines 58-79, entered with both guards passed: up to the first await
TryFetch(cj, gac, keyFile, ctorThrows) ==
    LET cred == ResolveCredentials(cj, gac, keyFile)
    IN  IF cred.threw THEN Catch(cred.trace, cred.options, EmptyObject)
        ELSE IF ctorThrows
        THEN Catch(cred.trace \o <<NEW_CLIENT, THROW>>, cred.options, EmptyObject)
        ELSE Outcome("awaitReport", cred.trace \o <<NEW_CLIENT, RUN_REPORT>>,
                     cred.options, EmptyObject, <<>>)

\* lines 45-79: from the call to the first await or return
Start(pid, cj, gac, keyFile, ctorThrows) ==
    IF MissingProperty(pid)
    THEN ReturnMock(<<WARN_NO_PROPERTY>>, EmptyObject, EmptyObject)
    ELSE IF MissingCredentials(cj, gac)
    THEN ReturnMock(<<WARN_NO_CREDENTIALS>>, EmptyObject, EmptyObject)
    ELSE TryFetch(cj, gac, keyFile, ctorThrows)

\* Variant: a rejected report is requested once more
AfterReportRetry(t, o, report) ==
    IF ~report.ok
    THEN IF Count(t, RUN_REPORT) < 2
         THEN Outcome("awaitReport", t \o <<THROW, RUN_REPORT>>, o,
                      EmptyObject, <<>>)
         ELSE Catch(t \o <<THROW>>, o, EmptyObject)
    ELSE Outcome("awaitCollection", t \o <<REPORT_RESOLVED, GET_COLLECTION>>,
                 o, report.response, <<>>)

\* Variant: after a rejected report the invocation waits for a retry that
\* nothing triggers
AfterReportHangs(t, o, report) ==
    IF ~report.ok
    THEN Outcome("awaitRetry", t \o <<THROW>>, o, EmptyObject, <<>>)
    ELSE Outcome("awaitCollection", t \o <<REPORT_RESOLVED, GET_COLLECTION>>,
                 o, report.response, <<>>)

\* Variant: a rejected report is swallowed and the blog entries are
\* requested all the same
AfterReportIgnoringFailure(t, o, report) ==
    IF ~report.ok
    THEN Outcome("awaitCollection", t \o <<THROW, GET_COLLECTION>>, o,
                 EmptyObject, <<>>)
    ELSE Outcome("awaitCollection", t \o <<REPORT_RESOLVED, GET_COLLECTION>>,
                 o, report.response, <<>>)

\* lines 79-117: runReport settles; on success getCollection is called
AfterReport(t, o, report) ==
    IF ~report.ok THEN Catch(t \o <<THROW>>, o, EmptyObject)
    ELSE Outcome("awaitCollection", t \o <<REPORT_RESOLVED, GET_COLLECTION>>,
                 o, report.response, <<>>)

\* Variant: the filtered list is returned even when it is empty
ReturnPagesUnchecked(t, o, resp, topPages) ==
    Outcome("returned", t \o <<RETURN_LIVE>>, o, resp, topPages)

\* Variant: the fallback after filtering is taken without a warning
ReturnPagesSilent(t, o, resp, topPages) ==
    IF Len(topPages) > 0
    THEN Outcome("returned", t \o <<RETURN_LIVE>>, o, resp, topPages)
    ELSE ReturnMock(t, o, resp)

\* lines 143-148
ReturnPages(t, o, resp, topPages) ==
    IF Len(topPages) > 0
    THEN Outcome("returned", t \o <<RETURN_LIVE>>, o, resp, topPages)
    ELSE ReturnMock(t \o <<WARN_NO_PAGES>>, o, resp)

\* lines 117-153: getCollection settles; the rows are filtered and returned
AfterCollection(t, o, resp, collection) ==
    IF ~collection.ok THEN Catch(t \o <<THROW>>, o, resp)
    ELSE ReturnPages(t \o <<COLLECTION_RESOLVED, FILTER>>, o, resp,
                     TopPages(collection.entries, resp))

(***************************************************************************)
(* What the analytics service and the content collection may answer.       *)
(***************************************************************************)
SeqsUpTo(S, n) == UNION {[1..k -> S] : k \in 0..n}

Cell(v) == [value |-> v]
Row(path, views) ==
    [dimensionValues |-> <<Cell(path)>>, metricValues |-> <<Cell(views)>>]

ReportRows ==
    { Row(BlogPath(<<"a">>), Codes(<<"7">>)),
      Row(BlogPath(<<"b", "/">>), Codes(<<"1", "2">>)),
      Row(BlogPath(<<"zz">>), Codes(<<"5">>)),
      Row(BlogPath(<<"a">>), Codes(<<"0">>)),
      [metricValues |-> <<Cell(Codes(<<"3">>))>>] }

Responses ==
    {EmptyObject} \cup {[rows |-> r] : r \in SeqsUpTo(ReportRows, MaxRows)}

ReportOutcomes ==
    {[ok |-> FALSE]} \cup {[ok |-> TRUE, response |-> r] : r \in Responses}

Entry(slug, title) == [slug |-> slug, title |-> title]

BlogCollections ==
    { <<>>,
      <<Entry(<<"a">>, "A")>>,
      <<Entry(<<"a">>, "A"), Entry(<<"b">>, "B")>>,
      <<Entry(<<"a">>, ""), Entry(<<"zz">>, "undefined")>> }

CollectionOutcomes ==
    {[ok |-> FALSE]} \cup {[ok |-> TRUE, entries |-> c] : c \in BlogCollections}

\* The answers that world w may give
KeyFilesIn(w) == IF w.any THEN KeyFiles ELSE {w.keyFile}
ConstructorThrowsIn(w) == IF w.any THEN BOOLEAN ELSE {w.constructorThrows}
ReportsIn(w) == IF w.any THEN ReportOutcomes ELSE {w.report}
CollectionsIn(w) == IF w.any THEN CollectionOutcomes ELSE {w.collection}

(***************************************************************************)
(* fetchTopEssays as actions of invocation i.                              *)
(***************************************************************************)
\* Variant: topPages is the module's array itself (const topPages =
\* MOCK_TOP_PAGES), so that the live records are pushed onto it
MockPagesAliased(o) ==
    IF o.pc = "returned" /\ o.trace[Len(o.trace)] = RETURN_LIVE
    THEN mockTopPages \o o.result
    ELSE mockTopPages

\* MOCK_TOP_PAGES after a stretch with outcome o: no statement of
\* fetchTopEssays writes to the array or to one of its records
MockPagesAfter(o) == mockTopPages

\* What history keeps of an invocation that returns with outcome o
Returns(o) ==
    IF o.trace[Len(o.trace)] = RETURN_MOCK
    THEN [kind |-> "mock", pages |-> o.result]
    ELSE [kind |-> "live"]

\* What history keeps of a stretch of invocation i with outcome o: the call,
\* when the stretch is the first of the invocation, and the return
Begins(i) ==
    IF pc[i] \in {"idle", "returned"} THEN <<[kind |-> "call"]>> ELSE <<>>
Ends(o) == IF o.pc = "returned" THEN <<Returns(o)>> ELSE <<>>

\* Variant: the response is held in a variable of the module, shared by
\* all invocations
SettleShared(i, o) ==
    /\ pc' = [pc EXCEPT ![i] = o.pc]
    /\ trace' = [trace EXCEPT ![i] = o.trace]
    /\ clientOptions' = [clientOptions EXCEPT ![i] = o.options]
    /\ response' = [j \in DOMAIN response |-> o.response]
    /\ result' = [result EXCEPT ![i] = o.result]
    /\ mockTopPages' = MockPagesAfter(o)
    /\ history' = history \o Begins(i) \o Ends(o)

\* Invocation i ends a stretch with outcome o: only what i holds changes
Settle(i, o) ==
    /\ pc' = [pc EXCEPT ![i] = o.pc]
    /\ trace' = [trace EXCEPT ![i] = o.trace]
    /\ clientOptions' = [clientOptions EXCEPT ![i] = o.options]
    /\ response' = [response EXCEPT ![i] = o.response]
    /\ result' = [result EXCEPT ![i] = o.result]
    /\ mockTopPages' = MockPagesAfter(o)
    /\ history' = history \o Begins(i) \o Ends(o)

Call(i) ==
    /\ pc[i] \in {"idle", "returned"}
    /\ calls < MaxCalls
    /\ calls' = calls + 1
    /\ \E keyFile \in KeyFilesIn(world),
          ctorThrows \in ConstructorThrowsIn(world) :
          Settle(i, Start(propertyId, credentialsJson, googleAppCreds,
                          keyFile, ctorThrows))
    /\ UNCHANGED <<env, propertyId, credentialsJson, googleAppCreds, world>>
    /\ UNCHANGED <<highlightVars, counterVars>>

ReportSettles(i) ==
    /\ pc[i] = "awaitReport"
    /\ \E report \in ReportsIn(world) :
          Settle(i, AfterReport(trace[i], clientOptions[i], report))
    /\ UNCHANGED <<env, propertyId, credentialsJson, googleAppCreds, calls,
                   world>>
    /\ UNCHANGED <<highlightVars, counterVars>>

CollectionSettles(i) ==
    /\ pc[i] = "awaitCollection"
    /\ \E collection \in CollectionsIn(world) :
          Settle(i, AfterCollection(trace[i], clientOptions[i], response[i],
                                    collection))
    /\ UNCHANGED <<env, propertyId, credentialsJson, googleAppCreds, calls,
                   world>>
    /\ UNCHANGED <<highlightVars, counterVars>>

\* The module has been loaded in environment e: lines 6-8
Loaded(e) ==
    /\ env = e
    /\ propertyId = LoadPropertyId(e)
    /\ credentialsJson = LoadCredentialsJson(e)
    /\ googleAppCreds = LoadGoogleAppCreds(e)
    /\ mockTopPages = MOCK_TOP_PAGES

\* No invocation of fetchTopEssays has been made by the callers in I
NotCalled(I) ==
    /\ pc = [i \in I |-> "idle"]
    /\ trace = [i \in I |-> <<>>]
    /\ clientOptions = [i \in I |-> EmptyObject]
    /\ response = [i \in I |-> EmptyObject]
    /\ result = [i \in I |-> <<>>]
    /\ calls = 0
    /\ history = <<>>

\* A world where every answer is possible: any state of the key file, a
\* constructor that throws or not, any report outcome, any collection outcome
AnyWorld == [any |-> TRUE]

\* A world with one answer to each question
FixedWorld(keyFile, ctorThrows, report, collection) ==
    [any |-> FALSE, keyFile |-> keyFile, constructorThrows |-> ctorThrows,
     report |-> report, collection |-> collection]

\* The other two units at rest
NoTree == [type |-> "root", children |-> <<>>]
NoPipeline == [config |-> "none", name |-> "none", ran |-> <<>>]
HighlightIdle ==
    /\ tree = NoTree /\ treeBefore = NoTree /\ applied = 0
    /\ pipeline = NoPipeline
CounterIdle ==
    /\ count = 0 /\ queue = <<>>
    /\ plus = 0 /\ minus = 0 /\ fresh = TRUE
FetchIdle ==
    /\ Loaded(CHOOSE e \in Envs : TRUE)
    /\ NotCalled({1})
    /\ world = AnyWorld

(***************************************************************************)
(* SpecFetch: one caller invoking fetchTopEssays, one call after another.  *)
(***************************************************************************)
InitFetch ==
    /\ \E e \in Envs : Loaded(e)
    /\ NotCalled({1})
    /\ world = AnyWorld
    /\ HighlightIdle
    /\ CounterIdle

NextFetch ==
    \/ \E i \in DOMAIN pc : Call(i)
    \/ \E i \in DOMAIN pc : ReportSettles(i)
    \/ \E i \in DOMAIN pc : CollectionSettles(i)

SpecFetch == InitFetch /\ [][NextFetch]_vars

(***************************************************************************)
(* Properties of fetchTopEssays, checked under SpecFetch.                  *)
(***************************************************************************)
\* The environment the module was loaded in lacks the named value
AbsentAtLoad(key) == ~Truthy(env.meta[key]) /\ ~Truthy(env.proc[key])

Started(i) == pc[i] # "idle"
Returned(i) == pc[i] = "returned"
ReturnedMock(i) ==
    /\ Returned(i)
    /\ result[i] = MOCK_TOP_PAGES
    /\ trace[i][Len(trace[i])] = RETURN_MOCK
ReturnedLive(i) ==
    /\ Returned(i)
    /\ trace[i][Len(trace[i])] = RETURN_LIVE

\* C1: when GA_PROPERTY_ID is absent at module load, every invocation of
\* fetchTopEssays returns MOCK_TOP_PAGES (five entries) and never constructs
\* the client, never calls runReport and never calls getCollection.
C1_MissingPropertyReturnsMock ==
    \A i \in DOMAIN pc :
        (AbsentAtLoad("GA_PROPERTY_ID") /\ Started(i)) =>
            /\ ReturnedMock(i)
            /\ Len(result[i]) = 5
            /\ ~Has(trace[i], {NEW_CLIENT, RUN_REPORT, GET_COLLECTION})

\* A second invocation with the identifier absent has returned
C1_Witness ==
    /\ AbsentAtLoad("GA_PROPERTY_ID")
    /\ calls = 2
    /\ ReturnedMock(1)

\* C2: with the property identifier present and both credential sources
\* absent, an invocation returns the fallback list without constructing the
\* client or calling runReport; with a credential source present it enters
\* the fetch path (the try block: its first step resolves the credentials).
C2_CredentialsGuard ==
    \A i \in DOMAIN pc :
        (~AbsentAtLoad("GA_PROPERTY_ID") /\ Started(i)) =>
            IF /\ AbsentAtLoad("GOOGLE_APPLICATION_CREDENTIALS_JSON")
               /\ AbsentAtLoad("GOOGLE_APPLICATION_CREDENTIALS")
            THEN /\ ReturnedMock(i)
                 /\ ~Has(trace[i], {NEW_CLIENT, RUN_REPORT})
            ELSE trace[i][1] \in {PARSE_INLINE, CWD}

\* An invocation with the identifier but no credentials has returned
C2_Witness ==
    /\ ~AbsentAtLoad("GA_PROPERTY_ID")
    /\ AbsentAtLoad("GOOGLE_APPLICATION_CREDENTIALS_JSON")
    /\ AbsentAtLoad("GOOGLE_APPLICATION_CREDENTIALS")
    /\ ReturnedMock(1)

\* Step e of t threw: it is directly followed by THROW
Threw(t, e) == \E k \in 1..(Len(t) - 1) : t[k] = e /\ t[k + 1] = THROW

\* C3: if constructing the client throws or the awaited runReport rejects,
\* the invocation returns the fallback list; the promise of no invocation is
\* ever rejected.
C3_ClientFailureReturnsMock ==
    \A i \in DOMAIN pc :
        /\ pc[i] \in {"idle", "awaitReport", "awaitCollection", "returned"}
        /\ (Threw(trace[i], NEW_CLIENT) \/ Threw(trace[i], RUN_REPORT)) =>
              ReturnedMock(i)

\* runReport has rejected and the invocation has returned
C3_Witness == Threw(trace[1], RUN_REPORT) /\ Returned(1)

\* Record r is built from row: its path and its parsed view count
BuiltFrom(r, row) ==
    /\ RowPath(row) # Undefined
    /\ r.path = RowPath(row).path
    /\ r.views = RowViews(row)

\* C4: an invocation that completes returns either the fallback list of
\* exactly five records or a non-empty list of records built from the rows
\* of the report; it never returns an empty list.
C4_MockOrNonEmptyLive ==
    \A i \in DOMAIN pc :
        Returned(i) =>
            /\ result[i] # <<>>
            /\ \/ result[i] = MOCK_TOP_PAGES /\ Len(result[i]) = 5
               \/ /\ ReturnedLive(i)
                  /\ "rows" \in DOMAIN response[i]
                  /\ \A k \in DOMAIN result[i] :
                        \E j \in DOMAIN response[i].rows :
                            BuiltFrom(result[i][k], response[i].rows[j])

\* The rows were all filtered out and the fallback list was returned instead
C4_Witness ==
    /\ ReturnedMock(1)
    /\ Has(trace[1], {WARN_NO_PAGES})
    /\ "rows" \in DOMAIN response[1]
    /\ Len(response[1].rows) = 2

\* C7: within one invocation runReport is called at most once, also after a
\* failure and after a response that is empty or entirely filtered out.
C7_RunReportAtMostOnce ==
    \A i \in DOMAIN pc : Count(trace[i], RUN_REPORT) <= 1

\* runReport was called once, it rejected, and the invocation has returned
C7_Witness ==
    /\ Returned(1)
    /\ Threw(trace[1], RUN_REPORT)
    /\ Count(trace[1], RUN_REPORT) = 1

\* A console warning or error precedes the last step of t
LoggedBeforeReturn(t) == \E k \in 1..(Len(t) - 1) : t[k] \in LogEvents

\* C8: an invocation that returns the fallback list has logged a warning or
\* an error before returning, on each of the four fallback paths; one that
\* returns live results with the credentials parsed logs nothing.
C8_FallbackIsLogged ==
    \A i \in DOMAIN pc :
        /\ (Returned(i) /\ result[i] = MOCK_TOP_PAGES) =>
              /\ LoggedBeforeReturn(trace[i])
              /\ Has(trace[i], {WARN_NO_PROPERTY, WARN_NO_CREDENTIALS,
                                WARN_NO_PAGES, ERROR_FETCH})
        /\ (ReturnedLive(i) /\ "credentials" \in DOMAIN clientOptions[i]) =>
              ~Has(trace[i], LogEvents)

\* The rows were filtered out with parsed credentials: the warning about the
\* filtering is the only thing logged
C8_Witness ==
    /\ ReturnedMock(1)
    /\ "credentials" \in DOMAIN clientOptions[1]
    /\ {trace[1][k] : k \in DOMAIN trace[1]} \cap LogEvents = {WARN_NO_PAGES}

\* After step k of t, the invocation does nothing but log the error and
\* return the fallback list
OnlyFallbackAfter(t, k) ==
    SubSeq(t, k + 1, Len(t)) = <<ERROR_FETCH, RETURN_MOCK>>

\* C9, as stated: whenever a step of the invocation throws, reading or
\* parsing the key file included, the invocation returns the fallback list
\* and performs no further step.
C9_AnyThrowFallsBack ==
    \A i \in DOMAIN pc :
        \A k \in DOMAIN trace[i] :
            trace[i][k] = THROW =>
                ReturnedMock(i) /\ OnlyFallbackAfter(trace[i], k)

\* C9, amended: a throw while resolving the path of the key file, reading
\* the file or parsing it is caught by the inner handler, which logs it,
\* and the invocation goes on to construct the client, with no explicit
\* credentials; every other throw makes the invocation return the fallback
\* list without a further step.
C9_ThrowFallsBackExceptKeyFile ==
    \A i \in DOMAIN pc :
        \A k \in DOMAIN trace[i] :
            trace[i][k] = THROW =>
                IF k > 1 /\ trace[i][k - 1] \in {CWD, READ_FILE, PARSE_KEY}
                THEN /\ SubSeq(trace[i], k + 1, k + 2)
                            = <<ERROR_KEY_FILE, NEW_CLIENT>>
                     /\ clientOptions[i] = EmptyObject
                ELSE ReturnedMock(i) /\ OnlyFallbackAfter(trace[i], k)

\* The key file could not be parsed and the invocation still went on to a
\* live result
C9_Witness ==
    /\ Threw(trace[1], PARSE_KEY)
    /\ ReturnedLive(1)

(***************************************************************************)
(* remark-highlight.mjs: remarkHighlight (lines 8-18).  A node is an       *)
(* object: a function from its keys to their values; a key the node does   *)
(* not have is not in its domain.                                          *)
(***************************************************************************)
\* Variant: any node named 'h' is taken for a highlight
MatchesAnyType(node) ==
    /\ "name" \in DOMAIN node
    /\ node.name = "h"

\* line 11
Matches(node) ==
    /\ node.type = "textDirective"
    /\ "name" \in DOMAIN node
    /\ node.name = "h"

\* line 12: node.data || (node.data = {})
DataOf(node) == IF "data" \in DOMAIN node THEN node.data ELSE EmptyObject

\* Variant: the class is merged into the hProperties the node already has
HighlightDataMerged(node) ==
    LET data == DataOf(node)
        old == IF "hProperties" \in DOMAIN data THEN data.hProperties
               ELSE EmptyObject
    IN  SetKey(SetKey(data, "hName", "mark"),
               "hProperties", SetKey(old, "class", "author-highlight"))

\* Variant: the node also counts the passes made over it
HighlightDataCounting(node) ==
    LET data == DataOf(node)
        passes == IF "passes" \in DOMAIN data THEN data.passes ELSE 0
    IN  SetKey(SetKey(SetKey(data, "hName", "mark"),
                      "hProperties", [class |-> "author-highlight"]),
               "passes", passes + 1)

\* Variant: the node gets a new data object (node.data = {...})
HighlightDataFresh(node) ==
    [hName |-> "mark", hProperties |-> [class |-> "author-highlight"]]

\* lines 12-14: the data of a matching node after the visitor has run on it
HighlightData(node) ==
    SetKey(SetKey(DataOf(node), "hName", "mark"),
           "hProperties", [class |-> "author-highlight"])

\* lines 10-16: the visitor, called on one node
Visitor(node) ==
    IF Matches(node) THEN SetKey(node, "data", HighlightData(node)) ELSE node

\* Variant: the children of a node that the visitor has rewritten are
\* skipped
RECURSIVE VisitSkippingMatched(_)
VisitSkippingMatched(node) ==
    LET n == Visitor(node)
    IN  IF "children" \in DOMAIN n /\ ~Matches(node)
        THEN SetKey(n, "children",
                    [k \in DOMAIN n.children |->
                        VisitSkippingMatched(n.children[k])])
        ELSE n

\* visit(tree, visitor): the visitor is called on the node, then on each of
\* its children in turn
RECURSIVE Visit(_)
Visit(node) ==
    LET n == Visitor(node)
    IN  IF "children" \in DOMAIN n
        THEN SetKey(n, "children",
                    [k \in DOMAIN n.children |-> Visit(n.children[k])])
        ELSE n

\* line 9: the transformer remarkHighlight() returns
RemarkHighlight(t) == Visit(t)

(***************************************************************************)
(* The syntax trees the transform is run on.                               *)
(***************************************************************************)
CustomData == [quoted |-> "yes"]
StyledData == [hName |-> "span", hProperties |-> [class |-> "old", id |-> "x"],
               quoted |-> "no"]

Directive(type, name) ==
    [type |-> type, name |-> name, attributes |-> EmptyObject]

\* Nodes without data and without children
BareNodes ==
    { Directive("textDirective", "h"), Directive("textDirective", "b"),
      Directive("leafDirective", "h"), Directive("containerDirective", "h"),
      [type |-> "paragraph"] }

\* The data a sample node may carry: none when the set holds EmptyObject
DataChoices(node) ==
    IF "name" \in DOMAIN node /\ node.type \in {"textDirective", "leafDirective"}
    THEN IF node.name = "h" THEN {EmptyObject, CustomData, StyledData}
         ELSE {EmptyObject, CustomData}
    ELSE {EmptyObject}

\* Parent nodes, still without their children
Heads ==
    UNION { { IF d = EmptyObject THEN b ELSE SetKey(b, "data", d)
              : d \in DataChoices(b) } : b \in BareNodes }

TextNode == [type |-> "text", value |-> "words"]

\* Trees of exactly n nodes, and sequences of trees of n nodes in all
RECURSIVE TreesOfSize(_), ForestsOfSize(_)
TreesOfSize(n) ==
    IF n = 0 THEN {}
    ELSE (IF n = 1 THEN {TextNode} ELSE {})
         \cup { SetKey(h, "children", f) : h \in Heads, f \in ForestsOfSize(n - 1) }
ForestsOfSize(n) ==
    IF n = 0 THEN {<<>>}
    ELSE UNION { { <<t>> \o f : t \in TreesOfSize(k), f \in ForestsOfSize(n - k) }
                 : k \in 1..n }

Trees == UNION { TreesOfSize(n) : n \in 1..MaxNodes }

\* The nodes of a tree, in the order visit() reaches them
RECURSIVE Nodes(_), NodesOfAll(_)
Nodes(t) ==
    <<t>> \o (IF "children" \in DOMAIN t THEN NodesOfAll(t.children) ELSE <<>>)
NodesOfAll(f) ==
    IF f = <<>> THEN <<>> ELSE Nodes(f[1]) \o NodesOfAll(Tail(f))

RunHighlight ==
    /\ applied < MaxRuns
    /\ tree' = RemarkHighlight(tree)
    /\ applied' = applied + 1
    /\ UNCHANGED <<treeBefore, pipeline>>
    /\ UNCHANGED <<fetchVars, counterVars>>

InitHighlight ==
    /\ tree \in Trees
    /\ treeBefore = tree
    /\ applied = 0
    /\ pipeline = NoPipeline
    /\ FetchIdle
    /\ CounterIdle

NextHighlight == RunHighlight

SpecHighlight == InitHighlight /\ [][NextHighlight]_vars

(***************************************************************************)
(* Properties of remarkHighlight, checked under SpecHighlight.             *)
(***************************************************************************)
\* A node without its children
Shallow(node) == [f \in DOMAIN node \ {"children"} |-> node[f]]

\* C5: after the transform has run, every node of type 'textDirective' named
\* 'h' has data.hName = 'mark' and data.hProperties = {class:
\* 'author-highlight'} exactly, whether or not it had data before.
C5_MatchingNodesAreMarked ==
    applied >= 1 =>
        \A k \in DOMAIN Nodes(tree) :
            LET node == Nodes(tree)[k]
            IN  (/\ node.type = "textDirective"
                 /\ "name" \in DOMAIN node
                 /\ node.name = "h") =>
                    /\ "data" \in DOMAIN node
                    /\ node.data.hName = "mark"
                    /\ node.data.hProperties = [class |-> "author-highlight"]

\* The transform has run once on a tree with two highlights below the root,
\* one without data and one that already had hProperties
C5_Witness ==
    /\ applied = 1
    /\ \E j, k \in 2..Len(Nodes(treeBefore)) :
          /\ Matches(Nodes(treeBefore)[j])
          /\ "data" \notin DOMAIN Nodes(treeBefore)[j]
          /\ Matches(Nodes(treeBefore)[k])
          /\ "data" \in DOMAIN Nodes(treeBefore)[k]
          /\ "hProperties" \in DOMAIN Nodes(treeBefore)[k].data

\* C6: the transform leaves every node that is not a 'textDirective' named
\* 'h' as it was: the same fields with the same values, and no data object
\* where there was none ('leafDirective' and 'containerDirective' nodes
\* named 'h' included).
C6_OtherNodesUntouched ==
    applied >= 1 =>
        /\ Len(Nodes(tree)) = Len(Nodes(treeBefore))
        /\ \A k \in DOMAIN Nodes(treeBefore) :
              LET old == Nodes(treeBefore)[k]
              IN  ~(/\ old.type = "textDirective"
                    /\ "name" \in DOMAIN old
                    /\ old.name = "h") =>
                      Shallow(Nodes(tree)[k]) = Shallow(old)

\* The transform has rewritten a highlight in a tree that also holds a
\* 'leafDirective' named 'h' without data
C6_Witness ==
    /\ applied = 1
    /\ tree # treeBefore
    /\ \E k \in DOMAIN Nodes(treeBefore) :
          /\ Nodes(treeBefore)[k].type = "leafDirective"
          /\ Nodes(treeBefore)[k].name = "h"
          /\ "data" \notin DOMAIN Nodes(treeBefore)[k]

(***************************************************************************)
(* Counter.tsx: Counter (lines 3-22).  A click runs the handler created    *)
(* by the latest render, which queues a state update; the next render      *)
(* processes the queue and creates new handlers.                           *)
(***************************************************************************)
\* Variant: the count is not taken below zero
DecrementClamped(c) == IF c > 0 THEN c - 1 ELSE 0

\* line 13: onClick={() => setCount(count - 1)}
Decrement(c) == c - 1

\* line 19: onClick={() => setCount(count + 1)}
Increment(c) == c + 1

\* Variant: the handlers pass updaters (setCount(c => c + 1)), so that the
\* queued updates add up: each one moves the state by what it added to c
RECURSIVE SumOfSteps(_, _)
SumOfSteps(c, q) ==
    IF q = <<>> THEN 0 ELSE (q[1] - c) + SumOfSteps(c, Tail(q))
ProcessQueueOfUpdaters(c, q) == c + SumOfSteps(c, q)

\* useState on a re-render: each queued setCount(value) replaces the state
RECURSIVE ProcessQueue(_, _)
ProcessQueue(c, q) ==
    IF q = <<>> THEN c ELSE ProcessQueue(q[1], Tail(q))

ClickPlus ==
    /\ plus + minus < MaxClicks
    /\ queue' = Append(queue, Increment(count))
    /\ plus' = plus + 1
    /\ fresh' = (fresh /\ queue = <<>>)
    /\ UNCHANGED <<count, minus>>
    /\ UNCHANGED <<fetchVars, highlightVars>>

ClickMinus ==
    /\ plus + minus < MaxClicks
    /\ queue' = Append(queue, Decrement(count))
    /\ minus' = minus + 1
    /\ fresh' = (fresh /\ queue = <<>>)
    /\ UNCHANGED <<count, plus>>
    /\ UNCHANGED <<fetchVars, highlightVars>>

Render ==
    /\ queue # <<>>
    /\ count' = ProcessQueue(count, queue)
    /\ queue' = <<>>
    /\ UNCHANGED <<plus, minus, fresh>>
    /\ UNCHANGED <<fetchVars, highlightVars>>

\* line 4: useState(0)
InitCounter ==
    /\ CounterIdle
    /\ FetchIdle
    /\ HighlightIdle

NextCounter == ClickPlus \/ ClickMinus \/ Render

SpecCounter == InitCounter /\ [][NextCounter]_vars

(***************************************************************************)
(* Properties of Counter, checked under SpecCounter.                       *)
(***************************************************************************)
\* C10: the counter starts at 0 and, when a re-render has taken place
\* between every two consecutive clicks, the count displayed after n clicks
\* on '+1' and m clicks on '-1' is n - m, negative values included.
C10_CountIsPlusMinusMinus ==
    /\ (plus = 0 /\ minus = 0) => count = 0
    /\ (fresh /\ queue = <<>>) => count = plus - minus

\* Two more clicks on '-1' than on '+1', each rendered: the count is negative
C10_Witness ==
    /\ fresh
    /\ queue = <<>>
    /\ plus = 1
    /\ minus = 3
    /\ count < 0

(***************************************************************************)
(* Further properties of fetchTopEssays, checked under SpecFetch.          *)
(***************************************************************************)
\* C11: the fallback list is fixed: no invocation adds, removes, reorders or
\* modifies an entry of MOCK_TOP_PAGES, so all invocations that take a
\* fallback path return the same five records (views 1250, 980, 850, 720,
\* 640) in the same order, whatever invocations preceded them.
C11_FallbackListIsFixed ==
    /\ mockTopPages = MOCK_TOP_PAGES
    /\ [k \in DOMAIN mockTopPages |-> mockTopPages[k].views.digits]
          = << <<1, 2, 5, 0>>, <<9, 8, 0>>, <<8, 5, 0>>, <<7, 2, 0>>, <<6, 4, 0>> >>
    /\ \A k \in DOMAIN mockTopPages :
          /\ ~mockTopPages[k].views.isNaN
          /\ ~mockTopPages[k].views.negative
          /\ ~mockTopPages[k].views.infinite
    /\ \A k \in DOMAIN history :
          history[k].kind = "mock" => history[k].pages = MOCK_TOP_PAGES
    /\ \A j, k \in DOMAIN history :
          (history[j].kind = "mock" /\ history[k].kind = "mock") =>
              history[j].pages = history[k].pages

\* An invocation returned live records and the next one the fallback list
C11_Witness ==
    /\ Len(history) = 4
    /\ history[2].kind = "live"
    /\ history[4].kind = "mock"

(***************************************************************************)
(* SpecFetchFair: SpecFetch in a world where every awaited operation       *)
(* eventually settles.                                                     *)
(***************************************************************************)
InitFetchFair ==
    /\ \E e \in MetaEnvs : Loaded(e)
    /\ NotCalled({1})
    /\ world = AnyWorld
    /\ HighlightIdle
    /\ CounterIdle

SpecFetchFair ==
    /\ InitFetchFair
    /\ [][NextFetch]_vars
    /\ WF_vars(ReportSettles(1))
    /\ WF_vars(CollectionSettles(1))

\* In this step runReport settles for invocation i: the next step of its
\* trace is the resolution or the exception
ReportSettled(i) ==
    /\ Len(trace'[i]) > Len(trace[i])
    /\ SubSeq(trace'[i], 1, Len(trace[i])) = trace[i]
    /\ trace'[i][Len(trace[i]) + 1] \in {REPORT_RESOLVED, THROW}

\* C12: there is no timeout. When every awaited operation eventually
\* settles, an invocation that awaits eventually returns; and an invocation
\* that awaits runReport stays as it is, returning nothing, in every step
\* other than the settling of runReport.
C12_NoTimeout ==
    /\ (pc[1] \in {"awaitReport", "awaitCollection"}) ~> (pc[1] = "returned")
    /\ [][\A i \in DOMAIN pc :
            pc[i] = "awaitReport" =>
                \/ ReportSettled(i)
                \/ /\ pc'[i] = "awaitReport"
                   /\ trace'[i] = trace[i]
                   /\ result'[i] = result[i]]_vars

\* An invocation has returned after both of its awaits were settled
C12_Witness ==
    /\ Returned(1)
    /\ Has(trace[1], {REPORT_RESOLVED})
    /\ Has(trace[1], {COLLECTION_RESOLVED})

(***************************************************************************)
(* SpecConcurrent: two callers whose invocations may overlap, in a world   *)
(* that gives every invocation the same answers.                           *)
(***************************************************************************)
\* Worlds with one answer to each question
FixedWorlds ==
    {FixedWorld(k, c, r, b) :
        k \in {[cwd |-> TRUE, exists |-> FALSE],
               [cwd |-> TRUE, exists |-> TRUE, readable |-> TRUE, content |-> KeyFileJson]},
        c \in BOOLEAN, r \in ReportOutcomes, b \in CollectionOutcomes}

InitConcurrent ==
    /\ \E e \in MetaEnvs : Loaded(e)
    /\ NotCalled({1, 2})
    /\ world \in FixedWorlds
    /\ HighlightIdle
    /\ CounterIdle

SpecConcurrent == InitConcurrent /\ [][NextFetch]_vars

\* The outcome of an invocation that runs on its own, from the call to the
\* return, with the answers keyFile, ctorThrows, report and collection
Alone(keyFile, ctorThrows, report, collection) ==
    LET started == Start(propertyId, credentialsJson, googleAppCreds,
                         keyFile, ctorThrows)
        reported == AfterReport(started.trace, started.options, report)
    IN  IF started.pc = "returned" THEN started
        ELSE IF reported.pc = "returned" THEN reported
        ELSE AfterCollection(reported.trace, reported.options,
                             reported.response, collection)

\* Alone, with the answers of a world that has one answer to each question
AloneIn(w) ==
    Alone(w.keyFile, w.constructorThrows, w.report, w.collection)

\* Two invocations were in flight at once: a call follows a call with no
\* return between them
Overlapped ==
    \E j, k \in DOMAIN history :
        /\ j < k
        /\ history[j].kind = "call"
        /\ history[k].kind = "call"
        /\ \A m \in (j + 1)..(k - 1) : history[m].kind \notin {"mock", "live"}

\* C13: overlapping invocations do not interfere: under every interleaving
\* each invocation performs the steps and returns the list that it performs
\* and returns when it runs alone against the same report response and blog
\* collection, and the client options it builds are its own.
C13_InvocationsDoNotInterfere ==
    \A i \in DOMAIN pc :
        Returned(i) =>
            /\ result[i] = AloneIn(world).result
            /\ trace[i] = AloneIn(world).trace
            /\ clientOptions[i] = AloneIn(world).options

\* Two invocations overlapped and both have returned live records
C13_Witness ==
    /\ Overlapped
    /\ ReturnedLive(1)
    /\ ReturnedLive(2)

(***************************************************************************)
(* SpecFilter: the row filter (lines 117-148) on the rows of a report.     *)
(* An invocation waits for getCollection with a response in hand; the      *)
(* collection arrives and the rows are filtered.                           *)
(***************************************************************************)
\* Rows with every kind of path and of view count
FilterRows ==
    { Row(BlogPath(<<"a">>), Codes(<<"7">>)),
      Row(BlogPath(<<"a", "/">>), Codes(<<"7">>)),
      Row(BlogPath(<<"a", "/", "/">>), Codes(<<"3">>)),
      Row(BlogPath(<<"b", "/">>), Codes(<<"1", "2">>)),
      Row(BlogPath(<<"zz">>), Codes(<<"5">>)),
      Row(BlogPath(<<"a">>), Codes(<<"0">>)),
      Row(BlogPath(<<"a">>), Codes(<<"-", "3">>)),
      Row(BlogPath(<<"a">>), Codes(<<"x">>)),
      Row(BlogPath(<<"b">>), Codes(<<"1", "2", "a", "b">>)),
      Row(BlogPath(<<"b">>), <<9, 10>> \o Codes(<<"+", "4">>)),
      Row(BlogPath(<<"a">>),
          Codes(<<"9", "0", "0", "7", "1", "9", "9", "2", "5", "4", "7", "4",
                  "0", "9", "9", "3">>)),
      Row(BlogPath(<<"a">>), Codes(<<>>)),
      Row(<<>>, Codes(<<"7">>)),
      [dimensionValues |-> <<>>, metricValues |-> <<EmptyObject>>],
      Row(<<"/">>, Codes(<<"7">>)),
      [dimensionValues |-> <<Cell(BlogPath(<<"a">>))>>],
      [metricValues |-> <<Cell(Codes(<<"3">>))>>] }

FilterReports ==
    {[ok |-> TRUE, response |-> [rows |-> r]] :
        r \in SeqsUpTo(FilterRows, MaxRows)}

\* The environment with a property id and inline credentials
InlineEnv ==
    CHOOSE e \in MetaEnvs :
        /\ e.meta.GA_PROPERTY_ID # Undefined
        /\ e.meta.GOOGLE_APPLICATION_CREDENTIALS_JSON # Undefined
        /\ e.meta.GOOGLE_APPLICATION_CREDENTIALS = Undefined

\* Invocation 1 has called runReport, received report and called
\* getCollection; one collection is what getCollection will answer
InitFilter ==
    /\ Loaded(InlineEnv)
    /\ \E report \in FilterReports, b \in CollectionOutcomes :
          LET started == Start(propertyId, credentialsJson, googleAppCreds,
                               [cwd |-> TRUE, exists |-> FALSE], FALSE)
              reported == AfterReport(started.trace, started.options, report)
          IN  /\ pc = [i \in {1} |-> reported.pc]
              /\ trace = [i \in {1} |-> reported.trace]
              /\ clientOptions = [i \in {1} |-> reported.options]
              /\ response = [i \in {1} |-> reported.response]
              /\ result = [i \in {1} |-> reported.result]
              /\ world = FixedWorld([cwd |-> TRUE, exists |-> FALSE], FALSE, report, b)
    /\ calls = 1
    /\ history = <<[kind |-> "call"]>>
    /\ HighlightIdle
    /\ CounterIdle

NextFilter == \E i \in DOMAIN pc : CollectionSettles(i)

SpecFilter == InitFilter /\ [][NextFilter]_vars

\* The rows of the response that invocation i holds
RowsOf(i) == IF "rows" \in DOMAIN response[i] THEN response[i].rows ELSE <<>>

\* The blog entries that getCollection answers in this world
EntriesOfWorld ==
    IF world.collection.ok THEN world.collection.entries ELSE <<>>

\* path with one trailing slash removed; the path '/' is kept (line 130)
WithoutTrailingSlash(path) ==
    IF Len(path) > 1 /\ path[Len(path)] = "/"
    THEN SubSeq(path, 1, Len(path) - 1) ELSE path

\* Entry e has the key '/en/blog/<slug>' or '/en/blog/<slug>/' equal to key
HasKey(e, key) ==
    key \in {BlogPath(e.slug), BlogPath(e.slug) \o <<"/">>}

\* The path of row, empty when the row has none
PathOf(row) ==
    IF HasFirstValue(row, "dimensionValues")
    THEN row.dimensionValues[1].value ELSE <<>>

\* The view count of row as the report gives it, empty when the row has none
ViewsOf(row) ==
    IF HasFirstValue(row, "metricValues")
    THEN row.metricValues[1].value ELSE <<>>

\* Row has a path
HasPath(row) == PathOf(row) # <<>>

\* The number n is above 0
AboveZero(n) == ~n.isNaN /\ ~n.negative /\ (n.infinite \/ n.digits # <<>>)

\* The view count of row is missing, zero, negative or not a number
NoViews(row) ==
    \/ ViewsOf(row) = <<>>
    \/ ParseInt(ViewsOf(row)) = NaN
    \/ ~AboveZero(ParseInt(ViewsOf(row)))

\* Some blog entry has a key equal to the path of row, or to that path with
\* one trailing slash removed
HasEntry(row) ==
    \E k \in DOMAIN EntriesOfWorld :
        \/ HasKey(EntriesOfWorld[k], PathOf(row))
        \/ HasKey(EntriesOfWorld[k], WithoutTrailingSlash(PathOf(row)))

\* The title that line 131 finds for row is not empty: the last title set
\* for the path of row or, when there is none or it is empty, for the path
\* with one trailing slash removed
Titled(row) ==
    /\ HasPath(row)
    /\ Truthy(Or(BlogMapGet(EntriesOfWorld, PathOf(row)),
                 BlogMapGet(EntriesOfWorld, WithoutTrailingSlash(PathOf(row)))))

\* Row gives no record: the test of line 128 or the test of line 133 fails
Dropped(row) == ~HasPath(row) \/ NoViews(row) \/ ~Titled(row)

\* Row has no path, no view count above 0 or no matching blog entry
Unusable(row) == ~HasPath(row) \/ NoViews(row) \/ ~HasEntry(row)

\* C14: every record of a live result comes from a row of the response with
\* a non-empty path and a parsed view count above 0; its path is the path of
\* the row as it is, its title that of a blog entry whose '/en/blog/<slug>'
\* or '/en/blog/<slug>/' key equals the path or the path with one trailing
\* slash removed; rows with a missing path, a missing, zero, negative or
\* non-numeric view count, or no matching entry give no record.
C14_LiveRecordsComeFromUsableRows ==
    \A i \in DOMAIN pc :
        ReturnedLive(i) =>
            /\ \A j \in DOMAIN result[i] :
                  \E k \in DOMAIN RowsOf(i) :
                      LET row == RowsOf(i)[k]
                          r == result[i][j]
                      IN  /\ HasPath(row)
                          /\ ~NoViews(row)
                          /\ r.path = PathOf(row)
                          /\ r.views = ParseInt(ViewsOf(row))
                          /\ AboveZero(r.views)
                          /\ \E e \in DOMAIN EntriesOfWorld :
                                /\ r.title = EntriesOfWorld[e].title
                                /\ \/ HasKey(EntriesOfWorld[e], r.path)
                                   \/ HasKey(EntriesOfWorld[e],
                                             WithoutTrailingSlash(r.path))
            /\ Len(result[i]) <=
                  Cardinality({k \in DOMAIN RowsOf(i) : ~Unusable(RowsOf(i)[k])})
            /\ Len(result[i]) =
                  Cardinality({k \in DOMAIN RowsOf(i) : ~Dropped(RowsOf(i)[k])})

\* A live result with one record, whose path ends with a slash, from a
\* response of two rows, the other of which has a view count of 0
C14_Witness ==
    /\ ReturnedLive(1)
    /\ Len(result[1]) = 1
    /\ result[1][1].path = BlogPath(<<"a", "/">>)
    /\ result[1][1].title = "A"
    /\ Len(RowsOf(1)) = 2
    /\ RowsOf(1)[1] = Row(BlogPath(<<"a">>), Codes(<<"0">>))

\* f places the records of result in rows, in increasing positions
Embeds(f, records, rows) ==
    /\ \A j \in DOMAIN records :
          /\ HasPath(rows[f[j]])
          /\ ~NoViews(rows[f[j]])
          /\ records[j].path = PathOf(rows[f[j]])
          /\ records[j].views = ParseInt(ViewsOf(rows[f[j]]))
    /\ \A j, k \in DOMAIN records : j < k => f[j] < f[k]

\* Rows k and l of invocation i are rows that give a record, for one slug, one with and
\* one without the trailing slash
SlashTwins(i, k, l) ==
    /\ ~Dropped(RowsOf(i)[k])
    /\ ~Dropped(RowsOf(i)[l])
    /\ PathOf(RowsOf(i)[l]) = PathOf(RowsOf(i)[k]) \o <<"/">>

\* C15: a live result is an order-preserving subsequence of the rows of the
\* response: the records are in the order of their rows, a row gives at most
\* one record, the result is no longer than the rows, and rows are not
\* deduplicated: a row for '/en/blog/s' and a row for '/en/blog/s/' each
\* give a record, both with the same title.
C15_LiveResultIsSubsequenceOfRows ==
    \A i \in DOMAIN pc :
        ReturnedLive(i) =>
            /\ Len(result[i]) <= Len(RowsOf(i))
            /\ \E f \in [DOMAIN result[i] -> DOMAIN RowsOf(i)] :
                  Embeds(f, result[i], RowsOf(i))
            /\ \A k, l \in DOMAIN RowsOf(i) :
                  SlashTwins(i, k, l) =>
                      \E m, n \in DOMAIN result[i] :
                          /\ m # n
                          /\ (k < l) = (m < n)
                          /\ result[i][m].path = PathOf(RowsOf(i)[k])
                          /\ result[i][n].path = PathOf(RowsOf(i)[l])
                          /\ result[i][m].title = result[i][n].title

\* A live result of two records with one title, from the row of a path with
\* the trailing slash followed by the row of the path without it
C15_Witness ==
    /\ ReturnedLive(1)
    /\ Len(result[1]) = 2
    /\ result[1][1].path = BlogPath(<<"a", "/">>)
    /\ result[1][2].path = BlogPath(<<"a">>)
    /\ result[1][1].title = result[1][2].title

(***************************************************************************)
(* fetchTopEssays: the two sources of credentials (lines 58-77).           *)
(***************************************************************************)
KeyFileSteps == {CWD, EXISTS_SYNC, READ_FILE, PARSE_KEY, WARN_NO_KEY_FILE,
                 ERROR_KEY_FILE}

\* C16: inline JSON credentials take precedence over the key-file path: when
\* GOOGLE_APPLICATION_CREDENTIALS_JSON is present, an invocation never checks
\* for or reads the key file, also when GOOGLE_APPLICATION_CREDENTIALS is
\* set, and the client it constructs gets the parsed value as credentials.
C16_InlineCredentialsFirst ==
    \A i \in DOMAIN pc :
        (Truthy(credentialsJson) /\ Started(i)) =>
            /\ ~Has(trace[i], KeyFileSteps)
            /\ Has(trace[i], {NEW_CLIENT}) =>
                  /\ JsonParse(credentialsJson.text).ok
                  /\ clientOptions[i] =
                        [credentials |-> JsonParse(credentialsJson.text).value]
            /\ (Truthy(propertyId) /\ JsonParse(credentialsJson.text).ok) =>
                  SubSeq(trace[i], 1, 2) = <<PARSE_INLINE, NEW_CLIENT>>

\* Both sources are set and the invocation returned live records through a
\* client built from the inline value
C16_Witness ==
    /\ Truthy(credentialsJson)
    /\ Truthy(googleAppCreds)
    /\ ReturnedLive(1)
    /\ clientOptions[1] = [credentials |-> JsonParse(InlineJson).value]

\* C17: when GOOGLE_APPLICATION_CREDENTIALS_JSON is present but is not valid
\* JSON, an invocation returns the fallback list without constructing the
\* client or calling runReport, and does not turn to the key file, also when
\* GOOGLE_APPLICATION_CREDENTIALS is set.
C17_InvalidInlineJsonFallsBack ==
    \A i \in DOMAIN pc :
        (/\ Truthy(credentialsJson)
         /\ ~JsonParse(credentialsJson.text).ok
         /\ Started(i)) =>
            /\ ReturnedMock(i)
            /\ ~Has(trace[i], {NEW_CLIENT, RUN_REPORT, GET_COLLECTION})
            /\ ~Has(trace[i], KeyFileSteps)
            /\ Truthy(propertyId) =>
                  trace[i] = <<PARSE_INLINE, THROW, ERROR_FETCH, RETURN_MOCK>>

\* The inline value did not parse, the key-file path is set, and the
\* invocation returned the fallback list from the catch block
C17_Witness ==
    /\ credentialsJson = Text(BadJson)
    /\ Truthy(googleAppCreds)
    /\ ReturnedMock(1)
    /\ Threw(trace[1], PARSE_INLINE)

\* The key file of an invocation with steps t was missing, unreadable (its
\* path could not be resolved, or reading it threw) or not valid JSON
KeyFileFailed(t) ==
    \/ Threw(t, CWD)
    \/ Has(t, {EXISTS_SYNC}) /\ ~Has(t, {READ_FILE})
    \/ Threw(t, READ_FILE)
    \/ Threw(t, PARSE_KEY)

\* Only the key-file path is configured
OnlyKeyFile ==
    /\ Truthy(propertyId)
    /\ ~Truthy(credentialsJson)
    /\ Truthy(googleAppCreds)

\* The invocation logged the problem with the key file and went on to
\* construct the client with no explicit credentials
LoggedAndConstructed(i) ==
    /\ Has(trace[i], {WARN_NO_KEY_FILE, ERROR_KEY_FILE})
    /\ Count(trace[i], NEW_CLIENT) = 1
    /\ clientOptions[i] = EmptyObject

\* The fallback list was returned because a later call threw or because no
\* usable row was left
FellBackLater(i) ==
    \/ Threw(trace[i], NEW_CLIENT)
    \/ Threw(trace[i], RUN_REPORT)
    \/ Threw(trace[i], GET_COLLECTION)
    \/ Has(trace[i], {WARN_NO_PAGES})

\* C18, as stated: with only the key-file path configured and a key file
\* that is missing, unreadable or not valid JSON, the invocation logs the
\* problem, still constructs the client with no explicit credentials and
\* still calls runReport exactly once; it returns the fallback list only if
\* a later call throws or no usable row is left.
C18_KeyFileFailureStillRunsReport ==
    \A i \in DOMAIN pc :
        (OnlyKeyFile /\ Started(i) /\ KeyFileFailed(trace[i])) =>
            /\ LoggedAndConstructed(i)
            /\ Count(trace[i], RUN_REPORT) = 1
            /\ ReturnedMock(i) => FellBackLater(i)

\* C18, amended: the invocation logs the problem and still constructs the
\* client with no explicit credentials; it calls runReport exactly once
\* unless the construction throws, and then not at all; it returns the
\* fallback list only if the construction, runReport or getCollection throws
\* or no usable row is left.
C18_KeyFileFailureStillConstructs ==
    \A i \in DOMAIN pc :
        (OnlyKeyFile /\ Started(i) /\ KeyFileFailed(trace[i])) =>
            /\ LoggedAndConstructed(i)
            /\ Count(trace[i], RUN_REPORT) =
                  IF Threw(trace[i], NEW_CLIENT) THEN 0 ELSE 1
            /\ ReturnedMock(i) => FellBackLater(i)
            /\ Returned(i) /\ ~FellBackLater(i) => ReturnedLive(i)

\* The key file was missing, the client was constructed without credentials,
\* and its construction threw: runReport was never called
C18_Witness ==
    /\ OnlyKeyFile
    /\ Has(trace[1], {WARN_NO_KEY_FILE})
    /\ Threw(trace[1], NEW_CLIENT)
    /\ ReturnedMock(1)
    /\ ~Has(trace[1], {RUN_REPORT})

(***************************************************************************)
(* fetchTopEssays: the order of the steps of one invocation.               *)
(***************************************************************************)
\* The stage of step e: 1 credentials resolution, 2 client construction,
\* 3 runReport, 4 getCollection, 5 row filtering; 0 for a log, a throw or a
\* return
Stage(e) ==
    CASE e \in {PARSE_INLINE} \cup KeyFileSteps -> 1
      [] e = NEW_CLIENT -> 2
      [] e \in {RUN_REPORT, REPORT_RESOLVED} -> 3
      [] e \in {GET_COLLECTION, COLLECTION_RESOLVED} -> 4
      [] e = FILTER -> 5
      [] OTHER -> 0

\* Step k of t is the first step of its stage, and every earlier stage has a
\* step before it
OpensStage(t, k) ==
    \A n \in 1..(Stage(t[k]) - 1) :
        \E j \in 1..(k - 1) : Stage(t[j]) = n

\* C19: within one invocation the steps come in the order credentials
\* resolution, client construction, runReport, getCollection, row filtering;
\* getCollection is called only after runReport has resolved and never when
\* runReport throws; when getCollection throws the invocation returns the
\* fallback list.
C19_StepsAreOrdered ==
    \A i \in DOMAIN pc :
        LET t == trace[i]
        IN  /\ \A j, k \in DOMAIN t :
                  (j < k /\ Stage(t[j]) > 0 /\ Stage(t[k]) > 0) =>
                      Stage(t[j]) <= Stage(t[k])
            /\ \A k \in DOMAIN t : Stage(t[k]) > 1 => OpensStage(t, k)
            /\ \A e \in {NEW_CLIENT, RUN_REPORT, GET_COLLECTION, FILTER} :
                  Count(t, e) <= 1
            /\ \A k \in DOMAIN t :
                  t[k] = GET_COLLECTION => (k > 1 /\ t[k - 1] = REPORT_RESOLVED)
            /\ Threw(t, RUN_REPORT) => ~Has(t, {GET_COLLECTION})
            /\ Threw(t, GET_COLLECTION) =>
                  (ReturnedMock(i) /\ ~Has(t, {FILTER}))

\* An invocation went through all five stages, the credentials coming from
\* the key file
C19_Witness ==
    /\ ReturnedLive(1)
    /\ trace[1] = <<CWD, EXISTS_SYNC, READ_FILE, PARSE_KEY, NEW_CLIENT, RUN_REPORT,
                    REPORT_RESOLVED, GET_COLLECTION, COLLECTION_RESOLVED,
                    FILTER, RETURN_LIVE>>

\* C20: remarkHighlight is idempotent: the tree after two runs of the
\* transform, or more, is the tree that one run on the first tree gives.
C20_SecondRunChangesNothing ==
    applied >= 2 => tree = RemarkHighlight(treeBefore)

\* The transform has run twice on a tree that its first run changed
C20_Witness ==
    /\ applied = 2
    /\ tree # treeBefore
    /\ \E k \in DOMAIN Nodes(treeBefore) :
          /\ Matches(Nodes(treeBefore)[k])
          /\ "data" \in DOMAIN Nodes(treeBefore)[k]

\* The number of children of a node
Arity(node) == IF "children" \in DOMAIN node THEN Len(node.children) ELSE 0

\* C21: on a matching node the transform attaches exactly two output
\* properties: it sets data.hName and replaces data.hProperties wholesale
\* (hProperties the node had are discarded, not merged); every other key of
\* node.data, and the type, name, attributes and children of the node, are
\* left as they were.
C21_OnlyTwoPropertiesAttached ==
    applied >= 1 =>
        /\ Len(Nodes(tree)) = Len(Nodes(treeBefore))
        /\ \A k \in DOMAIN Nodes(treeBefore) :
              LET old == Nodes(treeBefore)[k]
                  new == Nodes(tree)[k]
                  before == IF "data" \in DOMAIN old THEN old.data ELSE <<>>
              IN  (/\ old.type = "textDirective"
                   /\ "name" \in DOMAIN old
                   /\ old.name = "h") =>
                      /\ DOMAIN new = DOMAIN old \cup {"data"}
                      /\ \A f \in DOMAIN old \ {"data", "children"} :
                            new[f] = old[f]
                      /\ Arity(new) = Arity(old)
                      /\ DOMAIN new.data =
                            DOMAIN before \cup {"hName", "hProperties"}
                      /\ new.data.hName = "mark"
                      /\ new.data.hProperties = [class |-> "author-highlight"]
                      /\ \A f \in DOMAIN before \ {"hName", "hProperties"} :
                            new.data[f] = before[f]

\* The transform has run on a highlight with children that had an hName, two
\* hProperties and one more key in its data
C21_Witness ==
    /\ applied = 1
    /\ \E k \in DOMAIN Nodes(treeBefore) :
          /\ Matches(Nodes(treeBefore)[k])
          /\ "data" \in DOMAIN Nodes(treeBefore)[k]
          /\ Nodes(treeBefore)[k].data = StyledData
          /\ Arity(Nodes(treeBefore)[k]) >= 1
          /\ Nodes(tree)[k].data.quoted = "no"

\* The node has been rewritten into a mark
Marked(node) ==
    /\ "data" \in DOMAIN node
    /\ "hName" \in DOMAIN node.data
    /\ node.data.hName = "mark"
    /\ "hProperties" \in DOMAIN node.data
    /\ node.data.hProperties = [class |-> "author-highlight"]

\* C22: one run of the transform visits every node at every depth: every
\* matching directive, also one inside another node or inside another
\* matching 'h' directive, is rewritten in that one pass; the transform adds,
\* removes and reorders no node.
C22_OnePassReachesEveryNode ==
    applied = 1 =>
        /\ Len(Nodes(tree)) = Len(Nodes(treeBefore))
        /\ \A k \in DOMAIN Nodes(treeBefore) :
              LET old == Nodes(treeBefore)[k]
                  new == Nodes(tree)[k]
              IN  /\ new.type = old.type
                  /\ ("name" \in DOMAIN new) = ("name" \in DOMAIN old)
                  /\ "name" \in DOMAIN old => new.name = old.name
                  /\ Arity(new) = Arity(old)
                  /\ ("children" \in DOMAIN new) = ("children" \in DOMAIN old)
                  /\ Matches(old) => Marked(new)

\* One run has rewritten a highlight, the highlight inside it, and the
\* highlight inside that one
C22_Witness ==
    /\ applied = 1
    /\ Matches(treeBefore)
    /\ Arity(treeBefore) = 1
    /\ Matches(treeBefore.children[1])
    /\ ~Marked(treeBefore.children[1])
    /\ Arity(treeBefore.children[1]) = 1
    /\ Matches(treeBefore.children[1].children[1])
    /\ Marked(tree.children[1].children[1])

(***************************************************************************)
(* Further properties of Counter, checked under SpecCounter.               *)
(***************************************************************************)
\* This step is a re-render that processes the queued updates
Rerenders == queue # <<>> /\ queue' = <<>>

\* C23: a click handler computes the new value from the count captured by
\* the render that created it, not from the latest state: every update
\* queued since a render is that render's count plus or minus 1, and the next
\* render shows the last one queued; '+1' twice gives captured + 1, '+1' then
\* '-1' gives captured - 1.
C23_HandlersUseCapturedCount ==
    /\ [](\A k \in DOMAIN queue : queue[k] \in {count + 1, count - 1})
    /\ [][Rerenders =>
            /\ count' = queue[Len(queue)]
            /\ queue = <<count + 1, count + 1>> => count' = count + 1
            /\ queue = <<count + 1, count - 1>> => count' = count - 1]_vars

\* Two clicks on '+1' and none on '-1' have been rendered and the count is 1
C23_Witness ==
    /\ plus = 2
    /\ minus = 0
    /\ queue = <<>>
    /\ count = 1

(***************************************************************************)
(* SpecEnv: the environment changes after the module has been loaded.      *)
(* import.meta.env and process.env are read at lines 6-8 only; a change of  *)
(* either after that is a step of the outside world.                       *)
(***************************************************************************)
\* The environments the environment may change to: nothing set, and
\* everything set in import.meta.env
NothingSet ==
    CHOOSE e \in MetaEnvs :
        /\ e.meta.GA_PROPERTY_ID = Undefined
        /\ e.meta.GOOGLE_APPLICATION_CREDENTIALS_JSON = Undefined
        /\ e.meta.GOOGLE_APPLICATION_CREDENTIALS = Undefined
EverythingSet ==
    CHOOSE e \in MetaEnvs :
        /\ e.meta.GA_PROPERTY_ID # Undefined
        /\ e.meta.GOOGLE_APPLICATION_CREDENTIALS_JSON # Undefined
        /\ e.meta.GOOGLE_APPLICATION_CREDENTIALS # Undefined
LaterEnvs == {NothingSet, EverythingSet}

\* The number of changes of the environment so far
EnvChanged == Len(SelectSeq(history, LAMBDA h : h.kind = "env"))

\* The environment changes; the module has been loaded and is not loaded
\* again
EnvChanges ==
    /\ EnvChanged < MaxEnvChanges
    /\ env' \in LaterEnvs \ {env}
    /\ history' = Append(history, [kind |-> "env"])
    /\ UNCHANGED <<propertyId, credentialsJson, googleAppCreds, pc, trace,
                   clientOptions, response, result, calls, mockTopPages,
                   world>>
    /\ UNCHANGED <<highlightVars, counterVars>>

\* A world whose key file is valid and whose report has one usable row
PlainWorld ==
    FixedWorld([cwd |-> TRUE, exists |-> TRUE, readable |-> TRUE, content |-> KeyFileJson],
               FALSE,
               [ok |-> TRUE,
                response |-> [rows |-> <<Row(BlogPath(<<"a">>), Codes(<<"7">>))>>]],
               [ok |-> TRUE, entries |-> <<Entry(<<"a">>, "A")>>])

InitEnv ==
    /\ \E e \in Envs : Loaded(e)
    /\ NotCalled({1})
    /\ world = PlainWorld
    /\ HighlightIdle
    /\ CounterIdle

NextEnv ==
    \/ \E i \in DOMAIN pc : Call(i)
    \/ \E i \in DOMAIN pc : ReportSettles(i)
    \/ \E i \in DOMAIN pc : CollectionSettles(i)
    \/ EnvChanges

SpecEnv == InitEnv /\ [][NextEnv]_vars

\* Value v is undefined or the empty string
Unset(v) == v \in {Undefined, Str(""), Text(<<>>)}

\* meta when it is set, else proc: the import.meta.env value preferred
Preferred(meta, proc) == IF ~Unset(meta) THEN meta ELSE proc

\* C24: the three configuration values are read once, when the module is
\* loaded, the import.meta.env value preferred over the process.env value;
\* they never change afterwards, and every invocation decides between
\* fallback and fetch from them, whatever the environment has become.
C24_ConfigurationIsCapturedAtLoad ==
    /\ propertyId = Preferred(env.meta.GA_PROPERTY_ID, env.proc.GA_PROPERTY_ID)
    /\ credentialsJson =
          Preferred(env.meta.GOOGLE_APPLICATION_CREDENTIALS_JSON,
                    env.proc.GOOGLE_APPLICATION_CREDENTIALS_JSON)
    /\ googleAppCreds =
          Preferred(env.meta.GOOGLE_APPLICATION_CREDENTIALS,
                    env.proc.GOOGLE_APPLICATION_CREDENTIALS)
    /\ [][/\ propertyId' = propertyId
          /\ credentialsJson' = credentialsJson
          /\ googleAppCreds' = googleAppCreds]_vars
    /\ [](\A i \in DOMAIN pc :
            Started(i) =>
                IF Unset(propertyId)
                THEN trace[i] = <<WARN_NO_PROPERTY, RETURN_MOCK>>
                ELSE IF Unset(credentialsJson) /\ Unset(googleAppCreds)
                THEN trace[i] = <<WARN_NO_CREDENTIALS, RETURN_MOCK>>
                ELSE trace[i][1] =
                        (IF ~Unset(credentialsJson) THEN PARSE_INLINE
                         ELSE CWD))

\* The module was loaded with a configuration, the environment then lost
\* every value, and an invocation called after that returned live records
C24_Witness ==
    /\ Len(history) = 3
    /\ history[1].kind = "env"
    /\ history[2].kind = "call"
    /\ env = NothingSet
    /\ ReturnedLive(1)

(***************************************************************************)
(* astro.config.mjs: the remark plugins of the two pipelines, in the two   *)
(* configurations of the file (lines 19-44 and 57-74).  A pipeline runs    *)
(* its plugins on a document in the order of its remarkPlugins list.       *)
(***************************************************************************)
REMARK_DIRECTIVE == "remarkDirective"
REMARK_HIGHLIGHT == "remarkHighlight"

Configs == {"lines 19-44", "lines 57-74"}
Pipelines == {"mdx", "markdown"}

\* lines 24 and 62: mdx({ remarkPlugins: [...] })
MdxRemarkPlugins(config) == <<REMARK_DIRECTIVE, REMARK_HIGHLIGHT>>

\* Variant: the markdown pipeline lists the highlight plugin first
MarkdownRemarkPluginsReversed(config) == <<REMARK_HIGHLIGHT, REMARK_DIRECTIVE>>

\* lines 30 and 68: markdown: { remarkPlugins: [...] }
MarkdownRemarkPlugins(config) == <<REMARK_DIRECTIVE, REMARK_HIGHLIGHT>>

RemarkPlugins(config, name) ==
    IF name = "mdx" THEN MdxRemarkPlugins(config)
    ELSE MarkdownRemarkPlugins(config)

\* The documents a pipeline is run on: a parent node with its children
Documents == TreesOfSize(1) \cup TreesOfSize(2)

\* The plugins the pipeline has still to run
Todo ==
    LET all == RemarkPlugins(pipeline.config, pipeline.name)
    IN  SubSeq(all, Len(pipeline.ran) + 1, Len(all))

\* The pipeline runs its next plugin; remarkHighlight transforms the tree
RunPlugin ==
    /\ pipeline # NoPipeline
    /\ Todo # <<>>
    /\ pipeline' = [pipeline EXCEPT !.ran = Append(@, Todo[1])]
    /\ IF Todo[1] = REMARK_HIGHLIGHT
       THEN tree' = RemarkHighlight(tree) /\ applied' = applied + 1
       ELSE UNCHANGED <<tree, applied>>
    /\ UNCHANGED treeBefore
    /\ UNCHANGED <<fetchVars, counterVars>>

InitPipeline ==
    /\ pipeline \in [config : Configs, name : Pipelines, ran : {<<>>}]
    /\ tree \in Documents
    /\ treeBefore = tree
    /\ applied = 0
    /\ FetchIdle
    /\ CounterIdle

NextPipeline == RunPlugin

SpecPipeline == InitPipeline /\ [][NextPipeline]_vars

\* In the sequence plugins, remarkDirective comes before every
\* remarkHighlight
DirectiveAhead(plugins) ==
    \A k \in DOMAIN plugins :
        plugins[k] = REMARK_HIGHLIGHT =>
            \E j \in 1..(k - 1) : plugins[j] = REMARK_DIRECTIVE

\* C25: in the site configuration both the markdown and the MDX pipeline
\* register remarkDirective strictly before remarkHighlight: in each
\* pipeline remarkDirective has run when remarkHighlight visits the tree,
\* and no pipeline registers remarkHighlight without remarkDirective ahead
\* of it.
C25_DirectiveBeforeHighlight ==
    /\ \A c \in Configs, n \in Pipelines :
          /\ DirectiveAhead(RemarkPlugins(c, n))
          /\ \E k \in DOMAIN RemarkPlugins(c, n) :
                RemarkPlugins(c, n)[k] = REMARK_HIGHLIGHT
    /\ DirectiveAhead(pipeline.ran)
    /\ applied >= 1 =>
          \E k \in DOMAIN pipeline.ran : pipeline.ran[k] = REMARK_DIRECTIVE
    /\ (pipeline # NoPipeline /\ Todo = <<>>) =>
          /\ applied = 1
          /\ tree = RemarkHighlight(treeBefore)

\* The markdown pipeline of the second configuration has run both plugins
\* on a document with a highlight, which is now a mark
C25_Witness ==
    /\ pipeline.config = "lines 57-74"
    /\ pipeline.name = "markdown"
    /\ pipeline.ran = <<REMARK_DIRECTIVE, REMARK_HIGHLIGHT>>
    /\ Matches(treeBefore)
    /\ Marked(tree)

====
